---------------------------- MODULE Spec2Model ----------------------------
(***************************************************************************)
(* A model of the p1255 oscilloscope client: the connection life cycle,    *)
(* the command writers and the reply readers of its three revisions        *)
(*   p1255.py    class P1255 + class Command   (rev = "p1255")             *)
(*   p1255_2.py  class P1255                   (rev = "p1255_2")           *)
(*   capture.py  function capture              (rev = "capture_py")        *)
(* A client is single threaded: one public call is in progress at a time.  *)
(* pc = "idle" between calls; a call runs through its program points and   *)
(* ends in pc = "returned" or pc = "raised"; Return is the caller going on.*)
(***************************************************************************)
EXTENDS Integers, Sequences, FiniteSets, TLC

\* ------------------------------------------------------------------ bounds
\* sockets one client may create in one run
MaxSockets == 2
\* commands written on one connection without a completed read
MaxUnanswered == 2
\* message boxes of the window that may be open, one in the other
MaxDialogs == 3
\* keys the terminal UI is given in one run
MaxKeys == 4
\* largest length a reply declares in its prefix
MaxDeclared == 2
\* bytes of a following reply that may already wait in the stream
MaxExtra == 1
\* longest reply tried, byte for byte, against the SCPI response reader
MaxScpiLen == 3

\* sample bytes a channel of a decoded reply holds at most
MaxSampleBytes == 4
\* a delivery is of at most this many bytes, or of all that is asked for
MaxPiece == 3

\* --------------------------------------------------------------- variables
VARIABLES
    rev,        \* which revision of the client this run uses
    sock,       \* self.sock: 0 is None, otherwise a socket id
    sockState,  \* OS state of every socket id: unused, created, connected, closed
    unanswered, \* commands written on the held socket since its last completed read
    pc,         \* program point of the call in progress
    op,         \* the public call in progress, or the last one
    args,       \* the arguments that call was given
    io,         \* how the call's connect or write ended in the OS, "none" if it made none
    err,        \* type of the exception the call raised, "none" otherwise
    errVals,    \* the numbers the raised exception carries in its message
    wrote,      \* bytes the call handed to the socket, in order
    retKind,    \* kind of the returned value: None, True, bytes, str
    retVal,     \* the returned bytes or characters
    dec,        \* the channels of the returned decoded capture, in order
    time,       \* the time axis derived for the returned decoded capture
    stream,     \* bytes the peer delivers on the held connection from now on
    rxPos,      \* how many bytes of stream the client has consumed
    peerEnd,    \* what the peer does once stream is used up: close or stall
    read,       \* local: bytes received so far by the reading loop
    length,     \* local: total computed from the length prefix
    buffer,     \* local: receive buffer
    response,   \* local: accumulator of receive_scpi_response
    rx,         \* how the call's last recv ended: data, eof, an exception, or none
    tick,       \* parity of the recv calls made, so that every call is a step
    \* gui.py: MainWindow
    timer,          \* self.timer: "None", or "active" for a started QTimer
    run_checked,    \* run_button.isChecked()
    run_text,       \* run_button.text()
    connect_text,   \* connect_button.text()
    current_dataset,\* self.current_dataset: "None" or "Dataset"
    dialogs,        \* the handlers that wait in a modal message box, innermost last
    \* tui.py: control and its elements
    ip_text,        \* ip_field.text
    ip_cursor,      \* ip_field.cursor
    port_text,      \* port_field.text
    port_cursor,    \* port_field.cursor
    active,         \* control.active: index of the element that gets the keys
    key_in,         \* the key the last input() of an element was given
    key_ret,        \* what the last input() of an element returned
    keys,           \* keys given to control.input() so far
    refresh_checked,    \* refresh_checkbox.checked
    button_connected,   \* connect_button.connected
    status_connected,   \* connection_status.connected
    status,             \* connection_status.status: "unset" until set_status ran
    status_line         \* the text the status line shows since its last redraw

vars == <<rev, sock, sockState, unanswered, pc, op, args, io, err, errVals, wrote,
          retKind, retVal, dec, time, stream, rxPos, peerEnd, read, length, buffer,
          response, rx, tick,
          timer, run_checked, run_text, connect_text, current_dataset, dialogs,
          ip_text, ip_cursor, port_text, port_cursor, active, key_in, key_ret, keys,
          refresh_checked, button_connected, status_connected, status, status_line>>

clientVars == <<rev, sock, sockState, unanswered>>
envVars == <<stream, rxPos, peerEnd>>
localVars == <<read, length, buffer, response, rx, tick>>
guiVars == <<timer, run_checked, run_text, connect_text, current_dataset, dialogs>>
tuiVars == <<ip_text, ip_cursor, port_text, port_cursor, active, key_in, key_ret, keys,
             refresh_checked, button_connected, status_connected, status, status_line>>
uiVars == <<guiVars, tuiVars>>

SockIds == 1..MaxSockets
FreeIds == {i \in SockIds : sockState[i] = "unused"}
NewId == CHOOSE i \in FreeIds : \A j \in FreeIds : i <= j

\* ------------------------------------------------------------- call frames
\* a call ends normally with value (k, v)
Returns(k, v) ==
    /\ pc' = "returned"
    /\ err' = "none"
    /\ errVals' = {}
    /\ retKind' = k
    /\ retVal' = v
    /\ dec' = <<>>
    /\ time' = <<>>
    /\ UNCHANGED uiVars

\* a call ends normally with the object of kind k decoded from the bytes v
ReturnsDecoded(k, v, chs) ==
    /\ pc' = "returned"
    /\ err' = "none"
    /\ errVals' = {}
    /\ retKind' = k
    /\ retVal' = v
    /\ dec' = chs
    /\ time' = <<>>
    /\ UNCHANGED uiVars

\* a call ends normally with the object of kind k decoded into the channels
\* chs and the time axis t
ReturnsTimed(k, t, chs) ==
    /\ pc' = "returned"
    /\ err' = "none"
    /\ errVals' = {}
    /\ retKind' = k
    /\ retVal' = <<>>
    /\ dec' = chs
    /\ time' = t
    /\ UNCHANGED uiVars

\* a call ends by raising exception type e carrying the numbers vals
Raises(e, vals) ==
    /\ pc' = "raised"
    /\ err' = e
    /\ errVals' = vals
    /\ retKind' = "None"
    /\ retVal' = <<>>
    /\ dec' = <<>>
    /\ time' = <<>>
    /\ UNCHANGED uiVars

\* the caller goes on after a finished call
Return ==
    /\ pc \in {"returned", "raised"}
    /\ pc' = "idle"
    /\ op' = "none"
    /\ args' = <<>>
    /\ io' = "none"
    /\ err' = "none"
    /\ errVals' = {}
    /\ wrote' = <<>>
    /\ retKind' = "None"
    /\ retVal' = <<>>
    /\ dec' = <<>>
    /\ time' = <<>>
    /\ UNCHANGED uiVars
    /\ stream' = <<>>
    /\ rxPos' = 0
    /\ peerEnd' = "stall"
    /\ read' = 0
    /\ length' = 0
    /\ buffer' = <<>>
    /\ response' = <<>>
    /\ rx' = "none"
    /\ tick' = 0
    /\ UNCHANGED clientVars

\* ---------------------------------------------------------------- connect
\* ipaddress.IPv4Address(address): four decimal parts, each 0..255
IPv4Valid(a) == Len(a) = 4 /\ \A i \in 1..4 : a[i] \in 0..255

Addresses == {<<192, 168, 1, 72>>, <<10, 0, 0, 256>>, <<192, 168, 1>>}
Ports == {-1, 0, 1, 3000, 4000, 4001, 65535, 65536}

\* what the operating system answers to connect()
ConnectOutcomes == {"ok", "ConnectionRefusedError", "TimeoutError", "OSError"}

\* connect that, when the OS refuses, neither closes the new socket nor drops it
connect_p1255_noclose(address, port, outcome) ==
    /\ pc = "idle" /\ rev = "p1255"
    /\ op' = "connect"
    /\ args' = <<address, port>>
    /\ IF ~IPv4Valid(address)
       THEN /\ io' = "none"
            /\ Raises("ValueError", {})
            /\ UNCHANGED <<sock, sockState, unanswered>>
       ELSE IF ~(0 < port /\ port < 65536)
       THEN /\ io' = "none"
            /\ Raises("ValueError", {port})
            /\ UNCHANGED <<sock, sockState, unanswered>>
       ELSE /\ FreeIds # {}
            /\ io' = outcome
            /\ IF outcome = "ok"
               THEN /\ sock' = NewId
                    /\ sockState' = [sockState EXCEPT ![NewId] = "connected"]
                    /\ unanswered' = 0
                    /\ Returns("True", <<>>)
               ELSE /\ sock' = NewId
                    /\ sockState' = [sockState EXCEPT ![NewId] = "created"]
                    /\ unanswered' = 0
                    /\ Raises(outcome, {})
    /\ UNCHANGED <<rev, wrote, envVars, localVars>>

\* p1255.py: connect(address, port)
connect_p1255(address, port, outcome) ==
    /\ pc = "idle" /\ rev = "p1255"
    /\ op' = "connect"
    /\ args' = <<address, port>>
    /\ IF ~IPv4Valid(address)
       THEN /\ io' = "none"
            /\ Raises("ValueError", {})
            /\ UNCHANGED <<sock, sockState, unanswered>>
       ELSE IF ~(0 < port /\ port < 65536)
       THEN /\ io' = "none"
            /\ Raises("ValueError", {port})
            /\ UNCHANGED <<sock, sockState, unanswered>>
       ELSE /\ FreeIds # {}
            /\ io' = outcome
            /\ IF outcome = "ok"
               THEN /\ sock' = NewId
                    /\ sockState' = [sockState EXCEPT ![NewId] = "connected"]
                    /\ unanswered' = 0
                    /\ Returns("True", <<>>)
               ELSE /\ sock' = 0
                    /\ sockState' = [sockState EXCEPT ![NewId] = "closed"]
                    /\ UNCHANGED unanswered
                    /\ Raises(outcome, {})
    /\ UNCHANGED <<rev, wrote, envVars, localVars>>

\* socket.connect((ip, port)) resolves ip first: a numeric host is read as
\* inet_aton reads it, one to four parts, the last one filling the rest
HostResolves(a) ==
    /\ Len(a) \in 1..4
    /\ \A i \in 1..(Len(a) - 1) : a[i] \in 0..255
    /\ a[Len(a)] >= 0
    /\ Len(a) = 4 => a[4] < 256
    /\ Len(a) = 3 => a[3] < 65536
    /\ Len(a) = 2 => a[2] < 16777216

\* p1255_2.py: connect(ip, port, timeout).  Nothing is validated: an ip that
\* does not resolve makes sock.connect raise socket.gaierror (an OSError,
\* caught), a port outside 0..65535 makes it raise OverflowError (not caught:
\* the new socket stays in self.sock, created and unconnected).
connect_p1255_2(address, port, outcome) ==
    /\ pc = "idle" /\ rev = "p1255_2"
    /\ op' = "connect"
    /\ args' = <<address, port>>
    /\ FreeIds # {}
    /\ IF ~HostResolves(address)
       THEN /\ io' = "gaierror"
            /\ sock' = 0
            /\ sockState' = [sockState EXCEPT ![NewId] = "closed"]
            /\ UNCHANGED unanswered
            /\ Raises("gaierror", {})
       ELSE IF ~(0 <= port /\ port <= 65535)
       THEN /\ io' = "none"
            /\ sock' = NewId
            /\ sockState' = [sockState EXCEPT ![NewId] = "created"]
            /\ unanswered' = 0
            /\ Raises("OverflowError", {})
       ELSE IF outcome # "ok"
       THEN /\ io' = outcome
            /\ sock' = 0
            /\ sockState' = [sockState EXCEPT ![NewId] = "closed"]
            /\ UNCHANGED unanswered
            /\ Raises(outcome, {})
       ELSE /\ io' = "ok"
            /\ sock' = NewId
            /\ sockState' = [sockState EXCEPT ![NewId] = "connected"]
            /\ unanswered' = 0
            /\ Returns("None", <<>>)
    /\ UNCHANGED <<rev, wrote, envVars, localVars>>

\* ------------------------------------------------------------- disconnect
\* self.sock.close(); self.sock = None
CloseHeld ==
    /\ sockState' = [sockState EXCEPT ![sock] = "closed"]
    /\ sock' = 0

\* disconnect without the test of self.sock: None has no close()
disconnect_p1255_unguarded ==
    /\ pc = "idle" /\ rev = "p1255"
    /\ op' = "disconnect"
    /\ args' = <<>>
    /\ io' = "none"
    /\ IF sock # 0
       THEN CloseHeld /\ Returns("None", <<>>)
       ELSE UNCHANGED <<sock, sockState>> /\ Raises("AttributeError", {})
    /\ UNCHANGED <<rev, unanswered, wrote, envVars, localVars>>

\* p1255.py: disconnect()
disconnect_p1255 ==
    /\ pc = "idle" /\ rev = "p1255"
    /\ op' = "disconnect"
    /\ args' = <<>>
    /\ io' = "none"
    /\ IF sock # 0 THEN CloseHeld ELSE UNCHANGED <<sock, sockState>>
    /\ Returns("None", <<>>)
    /\ UNCHANGED <<rev, unanswered, wrote, envVars, localVars>>

\* p1255_2.py: disconnect()
disconnect_p1255_2 ==
    /\ pc = "idle" /\ rev = "p1255_2"
    /\ op' = "disconnect"
    /\ args' = <<>>
    /\ io' = "none"
    /\ IF sock # 0 THEN CloseHeld ELSE UNCHANGED <<sock, sockState>>
    /\ Returns("None", <<>>)
    /\ UNCHANGED <<rev, unanswered, wrote, envVars, localVars>>

\* ---------------------------------------------------------------- encoding
\* the ASCII code of each character the client sends or matches
Ord ==
    "0" :> 48 @@ "1" :> 49 @@ "2" :> 50 @@ "4" :> 52 @@ "6" :> 54 @@ "8" :> 56 @@
    ":" :> 58 @@ "?" :> 63 @@ "A" :> 65 @@ "B" :> 66 @@ "C" :> 67 @@ "D" :> 68 @@
    "E" :> 69 @@ "H" :> 72 @@ "I" :> 73 @@ "K" :> 75 @@ "M" :> 77 @@ "N" :> 78 @@
    "P" :> 80 @@ "Q" :> 81 @@ "R" :> 82 @@ "S" :> 83 @@ "T" :> 84 @@ "V" :> 86 @@
    "Y" :> 89 @@ "a" :> 97 @@ "c" :> 99 @@ "e" :> 101 @@ "g" :> 103 @@ "h" :> 104 @@
    "i" :> 105 @@ "l" :> 108 @@ "p" :> 112 @@ "r" :> 114 @@ "s" :> 115 @@
    "t" :> 116 @@ "u" :> 117 @@ "v" :> 118

\* str.encode("ASCII"): a string is a sequence of characters
encode_ascii(s) == [i \in 1..Len(s) |-> Ord[s[i]]]

\* bytes.hex(): a hex string is a sequence of hex digits, each 0..15
hex(bs) == [i \in 1..(2 * Len(bs)) |->
              IF i % 2 = 1 THEN bs[(i + 1) \div 2] \div 16 ELSE bs[i \div 2] % 16]

\* bytes.fromhex(): two digits make one byte
fromhex(h) == [i \in 1..(Len(h) \div 2) |-> 16 * h[2 * i - 1] + h[2 * i]]

\* int.to_bytes(4, byteorder="big"), for 0 <= n < 2^31
to_bytes_4_big(n) ==
    <<n \div 16777216, (n \div 65536) % 256, (n \div 256) % 256, n % 256>>

\* struct.pack(">i", n): two's complement, most significant byte first; the
\* bytes of a negative n are the complemented bytes of -n - 1
pack_be_i32(n) ==
    IF n >= 0 THEN to_bytes_4_big(n)
    ELSE [i \in 1..4 |-> 255 - to_bytes_4_big(-n - 1)[i]]

\* ipaddress.IPv4Address(a).packed
packed(a) == <<a[1], a[2], a[3], a[4]>>

\* round(x / 0.04) with x given in millivolts: to nearest, ties to even
round_steps(mv) ==
    LET q == mv \div 40
        r == mv % 40
    IN  IF r < 20 THEN q
        ELSE IF r > 20 THEN q + 1
        ELSE IF q % 2 = 0 THEN q ELSE q + 1

\* the exception classes of the Python library, as far as the client tells them apart
IsConnectionError(e) ==
    e \in {"ConnectionError", "BrokenPipeError", "ConnectionResetError",
           "ConnectionRefusedError"}
IsOSError(e) == IsConnectionError(e) \/ e \in {"OSError", "TimeoutError", "gaierror"}

\* what a write on the socket can end in
SendOutcomes == {"ok", "BrokenPipeError", "TimeoutError", "OSError"}

\* a write on a socket that was never connected cannot succeed
CanSend(outcome) == outcome = "ok" => sockState[sock] = "connected"

\* ---------------------------------------------------------- plain commands
\* command_mappings.py / commands.py: the text commands
GET_WAVEFORM == <<"S", "T", "A", "R", "T", "B", "I", "N">>
GET_DEEP_WAVEFORM == <<"S", "T", "A", "R", "T", "M", "E", "M", "D", "E", "P", "T", "H">>
GET_BMP == <<"S", "T", "A", "R", "T", "B", "M", "P">>
GET_AVERAGE == <<":", "A", "C", "Q", "u", "i", "r", "e", ":", "A", "V", "E", "R", "a", "g", "e", "?">>
GET_TYPE == <<":", "A", "C", "Q", "u", "i", "r", "e", ":", "T", "Y", "P", "E", "?">>
GET_MEMDEPTH == <<":", "A", "C", "Q", "u", "i", "r", "e", ":", "M", "D", "E", "P", "t", "h", "?">>
PlainCommands == {GET_WAVEFORM, GET_DEEP_WAVEFORM, GET_BMP, GET_AVERAGE, GET_TYPE, GET_MEMDEPTH}

\* p1255_2.py: send_command(command), command a hex string
send_command(command, outcome) ==
    /\ pc = "idle" /\ rev = "p1255_2"
    /\ op' = "send_command"
    /\ args' = <<command>>
    /\ IF sock = 0
       THEN /\ io' = "none"
            /\ Returns("None", <<>>)
            /\ UNCHANGED <<sock, sockState, unanswered, wrote>>
       ELSE /\ unanswered < MaxUnanswered
            /\ CanSend(outcome)
            /\ io' = outcome
            /\ IF outcome = "ok"
               THEN /\ wrote' = fromhex(command)
                    /\ unanswered' = unanswered + 1
                    /\ Returns("None", <<>>)
                    /\ UNCHANGED <<sock, sockState>>
               ELSE /\ CloseHeld
                    /\ Raises(outcome, {})
                    /\ UNCHANGED <<unanswered, wrote>>
    /\ UNCHANGED <<rev, envVars, localVars>>

\* p1255_2.py: send_scpi_command(command), command a text command
send_scpi_command(command, outcome) ==
    send_command(hex(encode_ascii(command)), outcome)

\* --------------------------------------------------------- modify commands
\* p1255.py: class Command.  _hex is a hex string.
add_hex(cmd, hex_str) == cmd \o hex_str
ascii_to_hex_str(ascii_str) == hex(encode_ascii(ascii_str))
\* Command.__add__ with a str and with a Command
add_str(cmd, s) == add_hex(cmd, ascii_to_hex_str(s))
add_cmd(cmd, other) == add_hex(cmd, other)
get_bytes(cmd) == fromhex(cmd)

\* p1255.py: Command.send(p1255), the tail of every setter
Command_send(cmd, outcome) ==
    IF sock = 0
    THEN /\ io' = "none"
         /\ Returns("None", <<>>)
         /\ UNCHANGED <<sock, sockState, unanswered, wrote>>
    ELSE /\ unanswered < MaxUnanswered
         /\ CanSend(outcome)
         /\ io' = outcome
         /\ IF outcome = "ok"
            THEN /\ wrote' = get_bytes(cmd)
                 /\ unanswered' = unanswered + 1
                 /\ Returns("None", <<>>)
            ELSE /\ Raises(outcome, {})
                 /\ UNCHANGED <<unanswered, wrote>>
         /\ UNCHANGED <<sock, sockState>>

\* ----------------------------------------------------------------- setters
\* p1255.py: the tables of set_trigger_configuration; values are hex strings
TRIGGER_TYPE_MAP_ASCII == "SINGLE" :> <<"s">> @@ "ALTERNATE" :> <<"a">>
TRIGGER_CHANNEL_MAP == 1 :> <<0, 0>> @@ 2 :> <<0, 1>>
TRIGGER_COUPLING_MAP ==
    "DC" :> <<0, 0>> @@ "AC" :> <<0, 1>> @@ "HF" :> <<0, 2>> @@ "LF" :> <<0, 3>>
MODE_MAP == "AUTO" :> <<0, 0>> @@ "NORM" :> <<0, 1>> @@ "SINGLE" :> <<0, 2>>
FLANK_MAP == "RISING" :> <<0, 0>> @@ "FALLING" :> <<0, 1>>

\* the arguments tried: every key of each table and values outside it
TriggerCouplings == {"DC", "AC", "HF", "LF", "GND"}
TriggerModes == {"AUTO", "NORM", "SINGLE", "NORMAL"}
TriggerFlanks == {"RISING", "FALLING", "BOTH"}
TriggerTypes == {"SINGLE", "ALTERNATE", "EDGE"}
Channels == {1, 2, 3}
\* trigger levels, in millivolts
Levels == {-7040, -7000, 0, 60, 5000, 5040}

\* 2**31 - 1 and -2**31, the range the level is clamped to before packing
MaxI32 == 2147483647
MinI32 == -MaxI32 - 1

\* the command set_trigger_configuration builds, a hex string
trigger_command(coupling, mode, flank, level, channel, type) ==
    LET repeat == add_hex(add_str(add_str(<<>>, <<"M", "T", "R">>),
                                  TRIGGER_TYPE_MAP_ASCII[type]),
                          TRIGGER_CHANNEL_MAP[channel])
        c0 == add_hex(add_str(<<>>, <<":", "M">>), <<0, 0, 0, 0, 0, 0, 2, 14>>)
        c1 == add_hex(add_hex(add_cmd(c0, repeat), <<0, 2>>), TRIGGER_COUPLING_MAP[coupling])
        c2 == add_hex(add_hex(add_cmd(c1, repeat), <<0, 3>>), MODE_MAP[mode])
        c3 == add_hex(add_hex(add_cmd(c2, repeat), <<0, 4>>), <<0, 0, 0, 0, 0, 0, 0, 0>>)
        c4 == add_hex(add_hex(add_cmd(c3, repeat), <<0, 5>>), FLANK_MAP[flank])
        trigger_level_steps == round_steps(level)
        clamped == IF trigger_level_steps < MinI32 THEN MinI32
                   ELSE IF trigger_level_steps > MaxI32 THEN MaxI32
                   ELSE trigger_level_steps
        hex_level == hex(pack_be_i32(clamped))
    IN  add_hex(add_hex(add_cmd(c4, repeat), <<0, 6>>), hex_level)

\* p1255.py: set_trigger_configuration(coupling, mode, flank, level, channel, type)
set_trigger_configuration(coupling, mode, flank, level, channel, type, outcome) ==
    /\ pc = "idle" /\ rev = "p1255"
    /\ op' = "set_trigger_configuration"
    /\ args' = <<coupling, mode, flank, level, channel, type>>
    /\ IF \/ coupling \notin DOMAIN TRIGGER_COUPLING_MAP
          \/ mode \notin DOMAIN MODE_MAP
          \/ flank \notin DOMAIN FLANK_MAP
          \/ channel \notin DOMAIN TRIGGER_CHANNEL_MAP
          \/ type \notin DOMAIN TRIGGER_TYPE_MAP_ASCII
          \/ ~(-7000 <= level /\ level <= 5000)
       THEN /\ io' = "none"
            /\ Raises("ValueError", {})
            /\ UNCHANGED <<sock, sockState, unanswered, wrote>>
       ELSE Command_send(trigger_command(coupling, mode, flank, level, channel, type),
                         outcome)
    /\ UNCHANGED <<rev, envVars, localVars>>

\* p1255.py: the tables of set_channel_configuration; voltbase keys in millivolts
CHANNEL_MAP == 1 :> <<0, 0>> @@ 2 :> <<0, 1>>
PROBERATE_MAP == 1 :> <<0, 0>> @@ 10 :> <<0, 1>> @@ 100 :> <<0, 2>> @@ 1000 :> <<0, 3>>
CHANNEL_COUPLING_MAP == "DC" :> <<0, 0>> @@ "AC" :> <<0, 1>> @@ "GND" :> <<0, 2>>
VOLTBASE_MAP ==
    2 :> <<0, 0>> @@ 5 :> <<0, 1>> @@ 10 :> <<0, 2>> @@ 20 :> <<0, 3>> @@
    50 :> <<0, 4>> @@ 100 :> <<0, 5>> @@ 200 :> <<0, 6>> @@ 500 :> <<0, 7>> @@
    1000 :> <<0, 8>> @@ 2000 :> <<0, 9>> @@ 5000 :> <<0, 10>> @@ 10000 :> <<0, 11>>

ProbeRates == {1, 10, 100, 1000, 5}
ChannelCouplings == {"DC", "AC", "GND", "HF"}
Voltbases == DOMAIN VOLTBASE_MAP \cup {0, 3}

\* the command set_channel_configuration builds, a hex string
channel_command(channel, probe_rate, coupling, voltbase_V) ==
    LET c0 == add_hex(add_str(<<>>, <<":", "M">>), <<0, 0, 0, 0, 0, 0, 0, 6>>)
        c1 == add_hex(add_str(c0, <<"M", "C", "H">>), CHANNEL_MAP[channel])
        c2 == add_hex(add_str(c1, <<"p">>), PROBERATE_MAP[probe_rate])
        c3 == add_hex(add_str(c2, <<"c">>), CHANNEL_COUPLING_MAP[coupling])
    IN  add_hex(add_str(c3, <<"v">>), VOLTBASE_MAP[voltbase_V])

\* a setter that drops the connection when it rejects its arguments
set_channel_configuration_closing(channel, probe_rate, coupling, voltbase_V, outcome) ==
    /\ pc = "idle" /\ rev = "p1255"
    /\ op' = "set_channel_configuration"
    /\ args' = <<channel, probe_rate, coupling, voltbase_V>>
    /\ IF \/ channel \notin DOMAIN CHANNEL_MAP
          \/ probe_rate \notin DOMAIN PROBERATE_MAP
          \/ coupling \notin DOMAIN CHANNEL_COUPLING_MAP
          \/ voltbase_V \notin DOMAIN VOLTBASE_MAP
       THEN /\ io' = "none"
            /\ Raises("ValueError", {})
            /\ IF sock # 0 THEN CloseHeld ELSE UNCHANGED <<sock, sockState>>
            /\ UNCHANGED <<unanswered, wrote>>
       ELSE Command_send(channel_command(channel, probe_rate, coupling, voltbase_V),
                         outcome)
    /\ UNCHANGED <<rev, envVars, localVars>>

\* p1255.py: set_channel_configuration(channel, probe_rate, coupling, voltbase_V)
set_channel_configuration(channel, probe_rate, coupling, voltbase_V, outcome) ==
    /\ pc = "idle" /\ rev = "p1255"
    /\ op' = "set_channel_configuration"
    /\ args' = <<channel, probe_rate, coupling, voltbase_V>>
    /\ IF \/ channel \notin DOMAIN CHANNEL_MAP
          \/ probe_rate \notin DOMAIN PROBERATE_MAP
          \/ coupling \notin DOMAIN CHANNEL_COUPLING_MAP
          \/ voltbase_V \notin DOMAIN VOLTBASE_MAP
       THEN /\ io' = "none"
            /\ Raises("ValueError", {})
            /\ UNCHANGED <<sock, sockState, unanswered, wrote>>
       ELSE Command_send(channel_command(channel, probe_rate, coupling, voltbase_V),
                         outcome)
    /\ UNCHANGED <<rev, envVars, localVars>>

Subnets == {<<255, 255, 255, 0>>, <<255, 255, 255>>}
Gateways == {<<192, 168, 1, 1>>, <<192, 168, 1, 300>>}

\* the command set_ip_configuration builds, a hex string
ip_command(ip, port, subnet, gateway) ==
    LET c0 == add_hex(add_str(<<>>, <<":", "M">>), <<0, 0, 0, 0, 0, 0, 1, 3>>)
        c1 == add_hex(add_str(c0, <<"M", "N", "T">>), hex(packed(ip)))
        c2 == add_hex(c1, hex(to_bytes_4_big(port)))
        c3 == add_hex(c2, hex(packed(subnet)))
    IN  add_hex(c3, hex(packed(gateway)))

\* p1255.py: set_ip_configuration(ip, port, subnet, gateway)
set_ip_configuration(ip, port, subnet, gateway, outcome) ==
    /\ pc = "idle" /\ rev = "p1255"
    /\ op' = "set_ip_configuration"
    /\ args' = <<ip, port, subnet, gateway>>
    /\ IF sock = 0
       THEN /\ io' = "none"
            /\ Returns("None", <<>>)
            /\ UNCHANGED <<sock, sockState, unanswered, wrote>>
       ELSE IF ~IPv4Valid(ip) \/ ~IPv4Valid(subnet) \/ ~IPv4Valid(gateway)
       THEN /\ io' = "none"
            /\ Raises("ValueError", {})
            /\ UNCHANGED <<sock, sockState, unanswered, wrote>>
       ELSE IF ~(0 < port /\ port <= 4000)
       THEN /\ io' = "none"
            /\ Raises("ValueError", {port})
            /\ UNCHANGED <<sock, sockState, unanswered, wrote>>
       ELSE Command_send(ip_command(ip, port, subnet, gateway), outcome)
    /\ UNCHANGED <<rev, envVars, localVars>>

\* -------------------------------------------------------------- transport
Min(a, b) == IF a < b THEN a ELSE b

\* bytes of stream not yet consumed
Avail == Len(stream) - rxPos

\* the byte counts one recv of at most n bytes can return: a non-empty part of
\* what is there (TCP delivers in arbitrary pieces), 0 once the peer closed
RecvCounts(n) ==
    IF Avail > 0
    THEN {k \in 1..Min(n, Avail) : k <= MaxPiece \/ k = Min(n, Avail)}
    ELSE IF peerEnd = "close" THEN {0} ELSE {}

\* the exception one recv raises on the socket with a timeout set
RecvRaises ==
    IF Avail = 0 /\ peerEnd = "stall" THEN "TimeoutError"
    ELSE IF Avail = 0 /\ peerEnd = "reset" THEN "ConnectionResetError"
    ELSE IF peerEnd = "notconn" THEN "OSError"
    ELSE "none"

\* how one recv made now ends: with bytes, with none (the peer closed), or
\* with the exception it raises
RecvResult ==
    IF Avail > 0 THEN "data"
    ELSE IF peerEnd = "close" THEN "eof"
    ELSE RecvRaises

\* sock.recv_into(memoryview(buf)[at:], k) having returned k
FillFrom(buf, at, k) ==
    [i \in 1..Len(buf) |-> IF at < i /\ i <= at + k THEN stream[rxPos + i - at] ELSE buf[i]]

\* bytearray(n)
Zeros(n) == [i \in 1..n |-> 0]

\* struct.unpack("<H", b)[0] and struct.unpack("<I", b)[0]
unpack_le_u16(b) == b[1] + 256 * b[2]
unpack_le_u32(b) == b[1] + 256 * b[2] + 65536 * b[3] + 16777216 * b[4]

\* what the peer may do when the stream is used up; "notconn" is the socket
\* that never was connected, where recv raises OSError (ENOTCONN)
PeerEnds == {"close", "stall", "reset"}
CanRecv(reply, ending) ==
    IF sockState[sock] = "connected" THEN ending \in PeerEnds
    ELSE ending = "notconn" /\ reply = <<>>

\* the replies the instrument may send: a length prefix of w bytes declaring d,
\* the bytes it announces, then the first bytes of a following reply; cut
\* anywhere.  Byte i of the body is a fixed pattern so that order is visible.
BodyByte(i) == (7 * i + 3) % 256
Frame(w, d, total) ==
    [i \in 1..total |->
        IF i = 1 THEN d % 256
        ELSE IF i = 2 THEN d \div 256
        ELSE IF i <= w THEN 0
        ELSE BodyByte(i)]
Replies(w, offset) ==
    {Frame(w, d, n) : d \in 0..MaxDeclared, n \in 0..(MaxDeclared + offset + MaxExtra)}
\* replies as receive_data reads them: 4 byte prefix, not counted
DataReplies == Replies(4, 4)

\* ---------------------------------------------------- capture (p1255.py)
\* ---------------------------------------------------------------- decoding
\* constants.LEN_UNKNOWN: header bytes the declared length does not count
LEN_UNKNOWN == 12

\* b[lo:hi] and b[lo:] of Python, 0 <= lo: indices past the end are cut off
Slice(b, lo, hi) == SubSeq(b, Min(lo, Len(b)) + 1, Min(hi, Len(b)))
From(b, lo) == Slice(b, lo, Len(b))

\* int.bit_count() of a byte
bit_count(x) ==
    (x % 2) + ((x \div 2) % 2) + ((x \div 4) % 2) + ((x \div 8) % 2)
    + ((x \div 16) % 2) + ((x \div 32) % 2) + ((x \div 64) % 2) + ((x \div 128) % 2)

\* bytes.decode('ascii') succeeds; str(b, 'utf8') on the bytes the replies
\* hold: ASCII, or 0xFF which no UTF-8 text contains
AsciiOk(b) == \A i \in 1..Len(b) : b[i] < 128
Utf8Ok(b) == \A i \in 1..Len(b) : b[i] < 128

\* struct.unpack("<h", ...) and struct.unpack("<i", ...) / ("<l", ...)
unpack_le_i16(b) ==
    IF b[2] >= 128 THEN b[1] + 256 * b[2] - 65536 ELSE b[1] + 256 * b[2]
unpack_le_i32(b) ==
    IF b[4] >= 128
    THEN -((255 - b[1]) + 256 * (255 - b[2]) + 65536 * (255 - b[3])
           + 16777216 * (255 - b[4])) - 1
    ELSE b[1] + 256 * b[2] + 65536 * b[3] + 16777216 * b[4]

\* struct.unpack("<" + "h" * (len(b) // 2), b) for b of even length
Samples(b) == [i \in 1..(Len(b) \div 2) |-> unpack_le_i16(<<b[2 * i - 1], b[2 * i]>>)]

\* a number m * 10^e, kept as mantissa and decimal exponent
Sci(m, e) == <<m, e>>

\* the three copies of calc_timescale: the time of the 15 divisions on the
\* screen, in nanoseconds (the copies return it times 1e-9, in seconds)
calc_timescale_p1255(number) ==
    LET exp == number \div 3
        mant == (0 :> 1 @@ 1 :> 2 @@ 2 :> 5)[number % 3]
    IN Sci(15 * mant, exp)
calc_timescale_data(number) ==
    LET exp == number \div 3
        mant == (0 :> 1 @@ 1 :> 2 @@ 2 :> 5)[number % 3]
    IN Sci(15 * mant, exp)
calc_timescale_cm_shifted(number) ==
    LET exp == (number + 1) \div 3
        mant == (0 :> 1 @@ 1 :> 2 @@ 2 :> 5)[number % 3]
    IN Sci(15 * mant, exp)
calc_timescale_cm(number) ==
    LET exp == number \div 3
        mant == (0 :> 1 @@ 1 :> 2 @@ 2 :> 5)[number % 3]
    IN Sci(15 * mant, exp)

\* a formula without the step down of the exponent
calc_voltscale_unshifted(number) ==
    LET n4 == number + 4
        exp == n4 \div 3
        mant == (0 :> 1 @@ 1 :> 2 @@ 2 :> 5)[n4 % 3]
    IN Sci(mant, exp)

\* p1255.py: Dataset.Channel.calc_voltscale, in millivolts (the code returns
\* it times 1e-3, in volts)
calc_voltscale(number) ==
    LET n4 == number + 4
        exp == (n4 \div 3) - 1
        mant == (0 :> 1 @@ 1 :> 2 @@ 2 :> 5)[n4 % 3]
    IN Sci(mant, exp)

\* list(cm.VOLTBASE.keys()) in millivolts per division
VOLTBASELIST == <<2, 5, 10, 20, 50, 100, 200, 500, 1000, 2000, 5000, 10000>>

\* a channel that failed to decode, a channel that decoded
ChannelFail(e) ==
    [err |-> e, name |-> <<>>, timescale |-> Sci(0, 0), voltscale |-> Sci(0, 0),
     offset |-> 0, raw |-> <<>>, used |-> 0, volt |-> <<>>, screen |-> <<>>]
ChannelOk(nm, ts, vs, off, raw, used) ==
    [err |-> "none", name |-> nm, timescale |-> ts, voltscale |-> vs,
     offset |-> off, raw |-> raw, used |-> used, volt |-> <<>>, screen |-> <<>>]
\* the channel with its samples in volts and in divisions of the screen
WithData(ch, volt, screen) == [ch EXCEPT !.volt = volt, !.screen = screen]

\* the first error among decoded channels, "none" if there is none
FirstErr(chs) ==
    IF \A i \in 1..Len(chs) : chs[i].err = "none" THEN "none"
    ELSE chs[CHOOSE i \in 1..Len(chs) :
                /\ chs[i].err # "none"
                /\ \A j \in 1..(i - 1) : chs[j].err = "none"].err

\* a decoded reply: the error raised, or the channels in order
Decoded(e, chs) == [err |-> e, channels |-> chs]

\* ------------------------------------------------------------ scaling
\* a quantity n / d * 10^e, kept exact; a Sci pair with its mantissa free of
\* factors of ten
Rat(n, d, e) == <<n, d, e>>
RECURSIVE Canon(_)
Canon(x) ==
    IF x[1] # 0 /\ x[1] % 10 = 0 THEN Canon(<<x[1] \div 10, x[2] + 1>>) ELSE x

\* data.py: the four scalings of Waveform.Channel; scale is the voltscale in
\* millivolts per division, off the offset in 1/25 of a division
normal_to_screen(ch, scale, off) == Rat(ch + off, 25, 0)
normal_to_volt(ch, scale, off) == Rat(ch * Canon(scale)[1], 25, Canon(scale)[2])
deep_to_volt(ch, scale, off) ==
    Rat(Canon(scale)[1] * (ch - 256 * off), 256 * 25, Canon(scale)[2])
deep_to_screen(ch, scale, off) == Rat(ch, 256 * 25, 0)

\* a decoder that takes the voltage of the one mode and the screen position
\* of the other
calculate_data_mixing(ch, memdepth) ==
    IF memdepth # "None"
    THEN WithData(ch,
                  [j \in 1..Len(ch.raw) |-> deep_to_volt(ch.raw[j], ch.voltscale, ch.offset)],
                  [j \in 1..Len(ch.raw) |-> normal_to_screen(ch.raw[j], ch.voltscale, ch.offset)])
    ELSE WithData(ch,
                  [j \in 1..Len(ch.raw) |-> normal_to_volt(ch.raw[j], ch.voltscale, ch.offset)],
                  [j \in 1..Len(ch.raw) |-> deep_to_screen(ch.raw[j], ch.voltscale, ch.offset)])

\* data.py: Waveform.Channel.calculate_data()
calculate_data(ch, memdepth) ==
    IF memdepth # "None"
    THEN WithData(ch,
                  [j \in 1..Len(ch.raw) |-> deep_to_volt(ch.raw[j], ch.voltscale, ch.offset)],
                  [j \in 1..Len(ch.raw) |-> deep_to_screen(ch.raw[j], ch.voltscale, ch.offset)])
    ELSE WithData(ch,
                  [j \in 1..Len(ch.raw) |-> normal_to_volt(ch.raw[j], ch.voltscale, ch.offset)],
                  [j \in 1..Len(ch.raw) |-> normal_to_screen(ch.raw[j], ch.voltscale, ch.offset)])

\* p1255.py: Dataset.Channel: self.data = (x / 128) * 5 * voltscale for each
\* sample, self.data_divisions = data / voltscale + volts_offset / 25
Dataset_data(ch) ==
    WithData(ch,
             [j \in 1..Len(ch.raw) |->
                 Rat(5 * ch.raw[j] * Canon(ch.voltscale)[1], 128, Canon(ch.voltscale)[2])],
             [j \in 1..Len(ch.raw) |->
                 Rat(5 * 25 * ch.raw[j] + 128 * ch.offset, 128 * 25, 0)])

\* np.linspace(start=-total / 2, stop=total / 2, num=num, endpoint=True) for a
\* total given as Sci pair: num points, the only point of num = 1 is start
linspace(total, num) ==
    [i \in 1..num |->
        IF num = 1 THEN Rat(-total[1], 2, total[2])
        ELSE Rat((2 * (i - 1) - (num - 1)) * total[1], 2 * (num - 1), total[2])]

\* a time axis that leaves out its end point
add_important_info_open(chs) ==
    [i \in 1..Len(chs[1].raw) |->
        Rat((2 * (i - 1) - Len(chs[1].raw)) * chs[1].timescale[1],
            2 * Len(chs[1].raw), chs[1].timescale[2])]

\* data.py: Waveform.add_important_info(): self.time
add_important_info(chs) == linspace(chs[1].timescale, Len(chs[1].raw))

\* p1255.py: Dataset.save(filename, fmt): the time column of 'csv' and the
\* 'time' array of 'npz'
save_time(chs) == linspace(chs[1].timescale, Len(chs[1].raw))

\* p1255_2.py: interpret_channel: data_volt = (raw_data / 25) * voltscale; no
\* screen data is computed
interpret_channel_data(ch) ==
    WithData(ch,
             [j \in 1..Len(ch.raw) |->
                 Rat(ch.raw[j] * Canon(ch.voltscale)[1], 25, Canon(ch.voltscale)[2])],
             <<>>)

\* ------------------------------------------------- Dataset (p1255.py)
\* constants.py: offsets in the capture buffer.  The serial string at 0x16 and
\* the channel bitmap at 0x35 are stated in p1255.py; the buffer is the
\* p1255_2.py / data.py layout behind 4 leading bytes, which gives the rest.
BEGIN_SERIAL_STRING == 22
LEN_SERIAL_STRING == 12
CHANNEL_BITMAP == 53
LEN_HEADER == 66
CHANNEL_TIMESCALE == 27
CHANNEL_OFFSET == 31
CHANNEL_VOLTSCALE == 35
BEGIN_CHANNEL_DATA == 59

\* p1255.py: Dataset.Channel.__init__(buffer)
Dataset_Channel(b) ==
    IF ~Utf8Ok(Slice(b, 0, 3)) THEN ChannelFail("UnicodeDecodeError")
    ELSE IF Len(b) <= CHANNEL_TIMESCALE THEN ChannelFail("IndexError")
    ELSE IF Len(b) <= CHANNEL_VOLTSCALE THEN ChannelFail("IndexError")
    ELSE IF Len(Slice(b, CHANNEL_OFFSET, CHANNEL_OFFSET + 4)) # 4
    THEN ChannelFail("struct.error")
    ELSE IF 2 * ((Len(b) - BEGIN_CHANNEL_DATA) \div 2) # Len(From(b, BEGIN_CHANNEL_DATA))
            /\ Len(b) >= BEGIN_CHANNEL_DATA
    THEN ChannelFail("struct.error")
    ELSE Dataset_data(
           ChannelOk(Slice(b, 0, 3),
                     calc_timescale_p1255(b[CHANNEL_TIMESCALE + 1]),
                     calc_voltscale(b[CHANNEL_VOLTSCALE + 1]),
                     unpack_le_i32(Slice(b, CHANNEL_OFFSET, CHANNEL_OFFSET + 4)),
                     Samples(From(b, BEGIN_CHANNEL_DATA)),
                     Len(b)))

\* p1255.py: Dataset.__init__(buffer)
Dataset(b) ==
    LET serial_raw == Slice(b, BEGIN_SERIAL_STRING, BEGIN_SERIAL_STRING + LEN_SERIAL_STRING)
    IN  IF ~Utf8Ok(Slice(serial_raw, 0, 5)) \/ ~Utf8Ok(From(serial_raw, 6))
        THEN Decoded("UnicodeDecodeError", <<>>)
        ELSE IF Len(b) <= CHANNEL_BITMAP THEN Decoded("IndexError", <<>>)
        ELSE LET num_channels == bit_count(b[CHANNEL_BITMAP + 1])
             IN  IF num_channels = 0 THEN Decoded("ZeroDivisionError", <<>>)
                 ELSE LET channel_data_size == (Len(b) - LEN_HEADER) \div num_channels
                          chs == [ch \in 1..num_channels |->
                                    Dataset_Channel(
                                      Slice(b, LEN_HEADER + (ch - 1) * channel_data_size,
                                            LEN_HEADER + ch * channel_data_size))]
                      IN  Decoded(FirstErr(chs), IF FirstErr(chs) = "none" THEN chs ELSE <<>>)

\* -------------------------------------------------- network (commands.py)
\* commands.py: network(ip, port, gateway, mask): the error it raises, or the
\* hex string
network(ip, port, gateway, mask) ==
    IF ~IPv4Valid(ip) \/ ~IPv4Valid(gateway) \/ ~IPv4Valid(mask)
    THEN [err |-> "ValueError", hex |-> <<>>]
    ELSE IF ~(0 <= port /\ port <= 65535)
    THEN [err |-> "ValueError", hex |-> <<>>]
    ELSE [err |-> "none",
          hex |-> hex(packed(ip)) \o hex(to_bytes_4_big(port)) \o hex(packed(mask))
                  \o hex(packed(gateway))]

\* commands.py: network(...) called on its own
network_call(ip, port, gateway, mask) ==
    /\ pc = "idle" /\ rev = "data_py"
    /\ op' = "network"
    /\ args' = <<ip, port, gateway, mask>>
    /\ io' = "none"
    /\ IF network(ip, port, gateway, mask).err = "none"
       THEN Returns("str", network(ip, port, gateway, mask).hex)
       ELSE Raises(network(ip, port, gateway, mask).err, {})
    /\ UNCHANGED <<clientVars, wrote, envVars, localVars>>

\* command_mappings.py: network(ip, port, gateway, mask), the second copy
network_cm(ip, port, gateway, mask) ==
    IF ~IPv4Valid(ip) \/ ~IPv4Valid(gateway) \/ ~IPv4Valid(mask)
    THEN [err |-> "ValueError", hex |-> <<>>]
    ELSE IF ~(0 <= port /\ port <= 65535)
    THEN [err |-> "ValueError", hex |-> <<>>]
    ELSE [err |-> "none",
          hex |-> hex(packed(ip)) \o hex(to_bytes_4_big(port)) \o hex(packed(mask))
                  \o hex(packed(gateway))]

\* command_mappings.py: network(...) called on its own
network_cm_call(ip, port, gateway, mask) ==
    /\ pc = "idle" /\ rev = "p1255_2"
    /\ op' = "network"
    /\ args' = <<ip, port, gateway, mask>>
    /\ io' = "none"
    /\ IF network_cm(ip, port, gateway, mask).err = "none"
       THEN Returns("str", network_cm(ip, port, gateway, mask).hex)
       ELSE Raises(network_cm(ip, port, gateway, mask).err, {})
    /\ UNCHANGED <<clientVars, wrote, envVars, localVars>>

\* ------------------------------------- trigger_voltage (commands.py)
\* the voltages tried, in millivolts: the levels and values far outside
Voltages == Levels \cup {-8000, -7020, 20, 5020, 6000}

\* commands.py: trigger_voltage(voltage), voltage in millivolts: the hex string
trigger_voltage(voltage) ==
    LET v == IF voltage < -7000 THEN -7000
             ELSE IF voltage > 5000 THEN 5000
             ELSE voltage
        steps == round_steps(v)
    IN  hex(pack_be_i32(steps))

\* command_mappings.py: trigger_voltage(voltage), the second copy
trigger_voltage_cm(voltage) ==
    LET v == IF voltage < -7000 THEN -7000
             ELSE IF voltage > 5000 THEN 5000
             ELSE voltage
        steps == round_steps(v)
    IN  hex(pack_be_i32(steps))

\* commands.py: trigger_voltage(...) called on its own
trigger_voltage_call(voltage) ==
    /\ pc = "idle" /\ rev = "data_py"
    /\ op' = "trigger_voltage"
    /\ args' = <<voltage>>
    /\ io' = "none"
    /\ Returns("str", trigger_voltage(voltage))
    /\ UNCHANGED <<clientVars, wrote, envVars, localVars>>

\* command_mappings.py: trigger_voltage(...) called on its own
trigger_voltage_cm_call(voltage) ==
    /\ pc = "idle" /\ rev = "p1255_2"
    /\ op' = "trigger_voltage"
    /\ args' = <<voltage>>
    /\ io' = "none"
    /\ Returns("str", trigger_voltage_cm(voltage))
    /\ UNCHANGED <<clientVars, wrote, envVars, localVars>>

\* ------------------------------------------------- Waveform (data.py)
\* bytes of the waveform header and of the channel header, as popped
WAVEFORM_HEADER == 8 + 10 + 12 + 19 + 1 + 12
CHANNEL_HEADER == 3 + 8 + 4 + 4 + 4 + 4 + 1 + 3 + 4 + 1 + 3 + 8 + 4 + 4 + 4

\* a channel decoder that leaves a stray last byte out of the samples
Waveform_Channel_dropping(b, memdepth) ==
    IF Len(b) < 3 THEN ChannelFail("ValueError")
    ELSE IF ~AsciiOk(Slice(b, 0, 3)) THEN ChannelFail("UnicodeDecodeError")
    ELSE IF Len(b) < CHANNEL_HEADER THEN ChannelFail("ValueError")
    ELSE IF Len(From(b, CHANNEL_HEADER)) \div 2 = 0 THEN ChannelFail("ZeroDivisionError")
    ELSE IF b[36] >= Len(VOLTBASELIST) THEN ChannelFail("IndexError")
    ELSE calculate_data(
           ChannelOk(Slice(b, 0, 3),
                     calc_timescale_data(b[28]),
                     Sci(VOLTBASELIST[b[36] + 1], 0),
                     unpack_le_i32(Slice(b, 31, 35)),
                     Samples(From(b, CHANNEL_HEADER)),
                     Len(b)),
           memdepth)

\* data.py: Waveform.Channel.__init__(data, memdepth): interpret_header, then
\* calculate_data.  Data.pop raises ValueError on too few bytes.
Waveform_Channel(b, memdepth) ==
    IF Len(b) < 3 THEN ChannelFail("ValueError")
    ELSE IF ~AsciiOk(Slice(b, 0, 3)) THEN ChannelFail("UnicodeDecodeError")
    ELSE IF Len(b) < CHANNEL_HEADER THEN ChannelFail("ValueError")
    ELSE IF Len(From(b, CHANNEL_HEADER)) % 2 # 0 THEN ChannelFail("struct.error")
    ELSE IF Len(From(b, CHANNEL_HEADER)) \div 2 = 0 THEN ChannelFail("ZeroDivisionError")
    ELSE IF b[36] >= Len(VOLTBASELIST) THEN ChannelFail("IndexError")
    ELSE calculate_data(
           ChannelOk(Slice(b, 0, 3),
                     calc_timescale_data(b[28]),
                     Sci(VOLTBASELIST[b[36] + 1], 0),
                     unpack_le_i32(Slice(b, 31, 35)),
                     Samples(From(b, CHANNEL_HEADER)),
                     Len(b)),
           memdepth)

\* data.py: Waveform.__init__(data): interpret_header, split_channels
Waveform(b, memdepth) ==
    IF Len(b) < 8 + 10 + 12 THEN Decoded("ValueError", <<>>)
    ELSE IF ~AsciiOk(Slice(b, 18, 30)) THEN Decoded("UnicodeDecodeError", <<>>)
    ELSE IF Len(b) < WAVEFORM_HEADER THEN Decoded("ValueError", <<>>)
    ELSE LET n_channels == bit_count(b[50])
             data == From(b, WAVEFORM_HEADER)
         IN  IF n_channels = 0 THEN Decoded("ZeroDivisionError", <<>>)
             ELSE IF Len(data) % n_channels # 0 THEN Decoded("ValueError", <<>>)
             ELSE LET len_per_channel == Len(data) \div n_channels
                      chs == [i \in 1..n_channels |->
                                Waveform_Channel(Slice(data, (i - 1) * len_per_channel,
                                                       i * len_per_channel),
                                                 memdepth)]
                  IN  Decoded(FirstErr(chs), IF FirstErr(chs) = "none" THEN chs ELSE <<>>)

\* --------------------------------- interpret_waveform (p1255_2.py)
\* p1255_2.py: interpret_channel(data).  This Data.pop returns what is left
\* when too few bytes are; indexing or unpacking the short chunk then fails.
interpret_channel(b) ==
    IF ~AsciiOk(Slice(b, 0, 3)) THEN ChannelFail("UnicodeDecodeError")
    ELSE IF Len(b) < 28 THEN ChannelFail("IndexError")
    ELSE IF Len(b) < 35 THEN ChannelFail("struct.error")
    ELSE IF Len(b) < 36 THEN ChannelFail("IndexError")
    ELSE IF Len(Slice(b, 47, 51)) # 4 THEN ChannelFail("struct.error")
    ELSE IF Len(From(b, CHANNEL_HEADER)) % 2 # 0 THEN ChannelFail("struct.error")
    ELSE IF b[36] >= Len(VOLTBASELIST) THEN ChannelFail("IndexError")
    ELSE interpret_channel_data(
           ChannelOk(Slice(b, 0, 3),
                     Sci(b[28], 0),
                     Sci(VOLTBASELIST[b[36] + 1], 0),
                     unpack_le_i32(Slice(b, 31, 35)),
                     Samples(From(b, CHANNEL_HEADER)),
                     Len(b)))

\* p1255_2.py: interpret_waveform(data), then interpret_channel of each
\* channel as get_waveform does
interpret_waveform(b) ==
    IF ~AsciiOk(Slice(b, 18, 30)) THEN Decoded("UnicodeDecodeError", <<>>)
    ELSE IF Len(b) < 50 THEN Decoded("IndexError", <<>>)
    ELSE LET n_channels == bit_count(b[50])
             data == From(b, WAVEFORM_HEADER)
         IN  IF n_channels = 0 THEN Decoded("ZeroDivisionError", <<>>)
             ELSE IF Len(data) % n_channels # 0 THEN Decoded("ValueError", <<>>)
             ELSE LET len_per_channel == Len(data) \div n_channels
                      chs == [i \in 1..n_channels |->
                                interpret_channel(Slice(data, (i - 1) * len_per_channel,
                                                        i * len_per_channel))]
                  IN  Decoded(FirstErr(chs), IF FirstErr(chs) = "none" THEN chs ELSE <<>>)

\* ------------------------------------------------------ screenshots
\* data.py: BMP(data): interpret_header pops 8 bytes, then the rest; Data.pop
\* raises ValueError on too few bytes
BMP(b) ==
    IF Len(b) < 8 THEN [err |-> "ValueError", bmp_data |-> <<>>]
    ELSE [err |-> "none", bmp_data |-> From(b, 8)]

\* p1255_2.py: interpret_bmp(data, output): this Data.pop returns what is left
\* when too few bytes are; rest is what is written to the file
interpret_bmp(b) ==
    LET unknown == Slice(b, 0, 8)
        rest == From(b, Len(unknown))
    IN  [err |-> "none", bmp_data |-> rest]

\* screenshot replies: up to 8 + MaxDeclared bytes
BmpInputs == {[i \in 1..n |-> BodyByte(i)] : n \in 0..(8 + MaxDeclared)}

\* data.py: BMP(Data(b))
BMP_init(b) ==
    /\ pc = "idle" /\ rev = "data_py"
    /\ op' = "BMP"
    /\ args' = <<b>>
    /\ io' = "none"
    /\ IF BMP(b).err = "none"
       THEN Returns("BMP", BMP(b).bmp_data)
       ELSE Raises(BMP(b).err, {})
    /\ UNCHANGED <<clientVars, wrote, envVars, localVars>>

\* p1255_2.py: interpret_bmp(Data(b), output); the value is the file written
interpret_bmp_call(b) ==
    /\ pc = "idle" /\ rev = "p1255_2"
    /\ op' = "interpret_bmp"
    /\ args' = <<b>>
    /\ io' = "none"
    /\ IF interpret_bmp(b).err = "none"
       THEN Returns("file", interpret_bmp(b).bmp_data)
       ELSE Raises(interpret_bmp(b).err, {})
    /\ UNCHANGED <<clientVars, wrote, envVars, localVars>>

\* ------------------------------------------------ replies to decode
\* a waveform reply in the layout interpret_waveform reads: header with the
\* channel bitmap bm, then one block per channel (one block when bm has no bit
\* set) with timescale index ts, voltscale index vs and k sample bytes, then
\* x bytes more
SerialBytes == <<80, 49, 50, 53, 53, 32, 49, 50, 51, 52, 53, 54>>
WaveHeader(bm) == Zeros(18) \o SerialBytes \o Zeros(19) \o <<bm>> \o Zeros(12)
ChannelBlock(c, ts, vs, k) ==
    <<67, 72, 48 + c>> \o Zeros(24) \o <<ts>> \o Zeros(3) \o <<236, 255, 255, 255>>
    \o <<vs>> \o Zeros(3) \o Zeros(8) \o Zeros(12) \o [i \in 1..k |-> BodyByte(i)]
WaveData(bm, ts, vs, k, x) ==
    WaveHeader(bm) \o ChannelBlock(1, ts, vs, k)
    \o (IF bit_count(bm) >= 2 THEN ChannelBlock(2, ts, vs, k) ELSE <<>>)
    \o Zeros(x)

\* the memory depth a deep-memory capture is decoded with, "None" for none
Memdepths == {"None", "10K"}

\* the inputs: channel bitmaps, voltscale indices, places to cut a reply short
Bitmaps == {0, 1, 2, 3}
VoltIndices == {0, 5, 11, 12, 13}
TimeIndices == 0..255
CutPoints == {0, 20, 49, 55, 62, 64, 90, 98, 121}
\* one channel at 1 V per division (index 8) with the one sample lo + 256 * hi
OneSample(lo, hi) ==
    Slice(WaveData(1, 4, 8, 2, 0), 0, WAVEFORM_HEADER + CHANNEL_HEADER) \o <<lo, hi>>
NotText(w, at) == [i \in 1..Len(w) |-> IF i = at THEN 255 ELSE w[i]]
WaveInputs ==
    {WaveData(bm, 4, vs, k, x) :
        bm \in Bitmaps, vs \in VoltIndices, k \in 0..MaxSampleBytes, x \in 0..MaxExtra}
    \cup {WaveData(1, ts, 0, 2, 0) : ts \in TimeIndices}
    \cup {Slice(WaveData(1, 4, 0, 2, 0), 0, t) : t \in CutPoints}
    \cup {NotText(WaveData(1, 4, 0, 2, 0), at) : at \in {19, 63}}
    \cup {OneSample(128, 0)}

\* the same reply as capture() holds it: behind its 2 byte length and 2 bytes more
CaptureBuffer(w) ==
    (IF Len(w) >= 8
     THEN <<(Len(w) + 4 - LEN_UNKNOWN) % 256, (Len(w) + 4 - LEN_UNKNOWN) \div 256>>
     ELSE <<0, 0>>)
    \o <<0, 0>> \o w
DatasetInputs == {CaptureBuffer(w) : w \in WaveInputs}

\* the same reply as receive_data() reads it: behind its 4 byte length
DataFrame(w) == <<Len(w) % 256, Len(w) \div 256, 0, 0>> \o w

\* whole waveform replies sent over the connection: one channel, no channel,
\* a stray sample byte, a voltscale index past the table
SentWaves ==
    {WaveData(1, 4, 0, 2, 0), WaveData(0, 4, 0, 2, 0), WaveData(1, 4, 0, 3, 0),
     WaveData(1, 4, 12, 2, 0)}
CaptureWaveReplies == {CaptureBuffer(w) : w \in SentWaves}
WaveformReplies == {DataFrame(w) : w \in SentWaves} \cup {<<>>}

\* replies to STARTBIN as capture reads them: 2 byte prefix, 12 bytes uncounted
SmallCaptureReplies == Replies(2, LEN_UNKNOWN)
CaptureReplies == SmallCaptureReplies \cup CaptureWaveReplies

\* p1255.py: dataset = Dataset(buffer), called on its own
Dataset_init(b) ==
    /\ pc = "idle" /\ rev = "p1255"
    /\ op' = "Dataset"
    /\ args' = <<b>>
    /\ io' = "none"
    /\ IF Dataset(b).err = "none"
       THEN ReturnsDecoded("Dataset", b, Dataset(b).channels)
       ELSE Raises(Dataset(b).err, {})
    /\ UNCHANGED <<clientVars, wrote, envVars, localVars>>

\* the formats Dataset.save is asked for
Formats == {"json", "csv", "npz", "txt"}

\* p1255.py: Dataset(buffer).save(filename, fmt); time is the time axis
\* written, none for 'json'
Dataset_save(b, fmt) ==
    /\ pc = "idle" /\ rev = "p1255"
    /\ op' = "Dataset_save"
    /\ args' = <<b, fmt>>
    /\ io' = "none"
    /\ IF Dataset(b).err # "none" THEN Raises(Dataset(b).err, {})
       ELSE IF fmt = "json" THEN ReturnsDecoded("file", <<>>, Dataset(b).channels)
       ELSE IF fmt \in {"csv", "npz"}
       THEN ReturnsTimed("file", save_time(Dataset(b).channels), Dataset(b).channels)
       ELSE Raises("ValueError", {})
    /\ UNCHANGED <<clientVars, wrote, envVars, localVars>>

\* data.py: Waveform(Data(b), memdepth); time is self.time
Waveform_init(b, memdepth) ==
    /\ pc = "idle" /\ rev = "data_py"
    /\ op' = "Waveform"
    /\ args' = <<b, memdepth>>
    /\ io' = "none"
    /\ IF Waveform(b, memdepth).err = "none"
       THEN ReturnsTimed("Waveform", add_important_info(Waveform(b, memdepth).channels),
                         Waveform(b, memdepth).channels)
       ELSE Raises(Waveform(b, memdepth).err, {})
    /\ UNCHANGED <<clientVars, wrote, envVars, localVars>>

\* p1255_2.py: interpret_waveform(Data(b)) and interpret_channel of its
\* channels, called on their own
interpret_waveform_call(b) ==
    /\ pc = "idle" /\ rev = "p1255_2"
    /\ op' = "interpret_waveform"
    /\ args' = <<b>>
    /\ io' = "none"
    /\ IF interpret_waveform(b).err = "none"
       THEN ReturnsDecoded("dict", b, interpret_waveform(b).channels)
       ELSE Raises(interpret_waveform(b).err, {})
    /\ UNCHANGED <<clientVars, wrote, envVars, localVars>>

\* data.py: Waveform.Channel.calc_timescale(number), and
\* command_mappings.py: calc_timescale(number), called on their own
calc_timescale_data_call(number) ==
    /\ pc = "idle" /\ rev = "data_py"
    /\ op' = "calc_timescale"
    /\ args' = <<number>>
    /\ io' = "none"
    /\ Returns("float", calc_timescale_data(number))
    /\ UNCHANGED <<clientVars, wrote, envVars, localVars>>
calc_timescale_cm_call(number) ==
    /\ pc = "idle" /\ rev = "p1255_2"
    /\ op' = "calc_timescale"
    /\ args' = <<number>>
    /\ io' = "none"
    /\ Returns("float", calc_timescale_cm(number))
    /\ UNCHANGED <<clientVars, wrote, envVars, localVars>>

\* p1255.py: capture(), up to the request write
capture_send(outcome, reply, ending) ==
    /\ pc = "idle" /\ rev = "p1255"
    /\ op' = "capture"
    /\ args' = <<>>
    /\ IF sock = 0
       THEN /\ io' = "none"
            /\ Returns("None", <<>>)
            /\ UNCHANGED <<unanswered, wrote, envVars>>
       ELSE /\ unanswered < MaxUnanswered
            /\ CanSend(outcome)
            /\ io' = outcome
            /\ IF outcome = "ok"
               THEN /\ wrote' = encode_ascii(GET_WAVEFORM)
                    /\ unanswered' = unanswered + 1
                    /\ stream' = reply
                    /\ rxPos' = 0
                    /\ peerEnd' = ending
                    /\ pc' = "capture_prefix"
                    /\ UNCHANGED <<err, errVals, retKind, retVal, dec, time, uiVars>>
               ELSE /\ Raises(IF outcome = "TimeoutError" \/ IsConnectionError(outcome)
                              THEN "ConnectionError" ELSE outcome, {})
                    /\ UNCHANGED <<unanswered, wrote, envVars>>
    /\ UNCHANGED <<rev, sock, sockState, localVars>>

\* p1255.py: capture(), read = recv_into(payload, 2) and the total length
capture_prefix ==
    /\ pc = "capture_prefix"
    /\ rx' = RecvResult
    /\ tick' = 1 - tick
    /\ \/ \E k \in RecvCounts(2) :
            /\ rxPos' = rxPos + k
            /\ IF k # 2
               THEN /\ Raises("RuntimeError", {})
                    /\ read' = k
                    /\ UNCHANGED <<length, buffer>>
               ELSE /\ read' = 2
                    /\ length' = unpack_le_u16(FillFrom(Zeros(2), 0, 2)) + LEN_UNKNOWN
                    /\ buffer' = FillFrom(Zeros(unpack_le_u16(FillFrom(Zeros(2), 0, 2))
                                                + LEN_UNKNOWN), 0, 2)
                    /\ pc' = "capture_loop"
                    /\ UNCHANGED <<err, errVals, retKind, retVal, dec, time, uiVars>>
       \/ /\ RecvRaises # "none"
          /\ Raises("ConnectionError", {})
          /\ UNCHANGED <<rxPos, read, length, buffer>>
    /\ UNCHANGED <<clientVars, op, args, io, wrote, stream, peerEnd, response>>

\* a capture that closes the connection when the reply does not decode
capture_loop_disconnecting ==
    /\ pc = "capture_loop"
    /\ rx' = IF read < length THEN RecvResult ELSE rx
    /\ IF read < length
       THEN /\ tick' = 1 - tick
            /\ \/ \E n \in RecvCounts(length - read) :
                    IF n = 0
                    THEN /\ Raises("ConnectionError", {})
                         /\ UNCHANGED <<rxPos, read, buffer, unanswered>>
                    ELSE /\ rxPos' = rxPos + n
                         /\ read' = read + n
                         /\ buffer' = FillFrom(buffer, read, n)
                         /\ UNCHANGED <<pc, err, errVals, retKind, retVal, dec, time, uiVars, unanswered>>
               \/ /\ RecvRaises # "none"
                  /\ Raises("ConnectionError", {})
                  /\ UNCHANGED <<rxPos, read, buffer, unanswered>>
            /\ UNCHANGED <<sock, sockState>>
       ELSE /\ IF Dataset(buffer).err = "none"
               THEN /\ ReturnsDecoded("Dataset", buffer, Dataset(buffer).channels)
                    /\ UNCHANGED <<sock, sockState>>
               ELSE /\ Raises(Dataset(buffer).err, {})
                    /\ CloseHeld
            /\ unanswered' = 0
            /\ UNCHANGED <<rxPos, read, buffer, tick>>
    /\ UNCHANGED <<rev, op, args, io, wrote, stream, peerEnd, length, response>>

\* a loop whose receive is bounded by the size of the buffer, not by the space
\* that is left in it
capture_loop_greedy ==
    /\ pc = "capture_loop"
    /\ rx' = IF read < length THEN RecvResult ELSE rx
    /\ IF read < length
       THEN /\ tick' = 1 - tick
            /\ \/ \E n \in RecvCounts(length) :
                    IF n = 0
                    THEN /\ Raises("ConnectionError", {})
                         /\ UNCHANGED <<rxPos, read, buffer, unanswered>>
                    ELSE /\ rxPos' = rxPos + n
                         /\ read' = read + n
                         /\ buffer' = FillFrom(buffer, read, n)
                         /\ UNCHANGED <<pc, err, errVals, retKind, retVal, dec, time, uiVars, unanswered>>
               \/ /\ RecvRaises # "none"
                  /\ Raises("ConnectionError", {})
                  /\ UNCHANGED <<rxPos, read, buffer, unanswered>>
       ELSE /\ IF Dataset(buffer).err = "none"
               THEN ReturnsDecoded("Dataset", buffer, Dataset(buffer).channels)
               ELSE Raises(Dataset(buffer).err, {})
            /\ unanswered' = 0
            /\ UNCHANGED <<rxPos, read, buffer, tick>>
    /\ UNCHANGED <<rev, sock, sockState, op, args, io, wrote, stream, peerEnd, length, response>>

\* p1255.py: capture(), one turn of while read < length, then Dataset(buffer)
capture_loop ==
    /\ pc = "capture_loop"
    /\ rx' = IF read < length THEN RecvResult ELSE rx
    /\ IF read < length
       THEN /\ tick' = 1 - tick
            /\ \/ \E n \in RecvCounts(length - read) :
                    IF n = 0
                    THEN /\ Raises("ConnectionError", {})
                         /\ UNCHANGED <<rxPos, read, buffer, unanswered>>
                    ELSE /\ rxPos' = rxPos + n
                         /\ read' = read + n
                         /\ buffer' = FillFrom(buffer, read, n)
                         /\ UNCHANGED <<pc, err, errVals, retKind, retVal, dec, time, uiVars, unanswered>>
               \/ /\ RecvRaises # "none"
                  /\ Raises("ConnectionError", {})
                  /\ UNCHANGED <<rxPos, read, buffer, unanswered>>
       ELSE /\ IF Dataset(buffer).err = "none"
               THEN ReturnsDecoded("Dataset", buffer, Dataset(buffer).channels)
               ELSE Raises(Dataset(buffer).err, {})
            /\ unanswered' = 0
            /\ UNCHANGED <<rxPos, read, buffer, tick>>
    /\ UNCHANGED <<rev, sock, sockState, op, args, io, wrote, stream, peerEnd, length, response>>

\* ------------------------------------------------ receive_data (p1255_2.py)
\* p1255_2.py: receive_data(), entry
receive_data_start(reply, ending) ==
    /\ pc = "idle" /\ rev = "p1255_2"
    /\ op' = "receive_data"
    /\ args' = <<>>
    /\ io' = "none"
    /\ IF ~(sock # 0)
       THEN /\ Raises("ConnectionError", {})
            /\ UNCHANGED <<envVars, read, buffer>>
       ELSE /\ CanRecv(reply, ending)
            /\ stream' = reply
            /\ rxPos' = 0
            /\ peerEnd' = ending
            /\ read' = 0
            /\ buffer' = Zeros(4)
            /\ pc' = "receive_data_prefix"
            /\ UNCHANGED <<err, errVals, retKind, retVal, dec, time, uiVars>>
    /\ UNCHANGED <<clientVars, wrote, length, response, rx, tick>>

\* p1255_2.py: return data of receive_data(); in get_waveform() the data
\* goes on to interpret_waveform and interpret_channel
receive_data_done(b) ==
    IF op = "get_waveform"
    THEN IF interpret_waveform(b).err = "none"
         THEN ReturnsDecoded("dict", b, interpret_waveform(b).channels)
         ELSE Raises(interpret_waveform(b).err, {})
    ELSE Returns("Data", b)

\* p1255_2.py: get_waveform(), up to the request write of send_scpi_command
get_waveform_start(outcome, reply, ending) ==
    /\ pc = "idle" /\ rev = "p1255_2"
    /\ op' = "get_waveform"
    /\ args' = <<>>
    /\ IF sock = 0
       THEN /\ io' = "none"
            /\ Raises("ConnectionError", {})
            /\ UNCHANGED <<sock, sockState, unanswered, wrote, envVars, read, buffer>>
       ELSE /\ unanswered < MaxUnanswered
            /\ CanSend(outcome)
            /\ io' = outcome
            /\ IF outcome = "ok"
               THEN /\ wrote' = fromhex(hex(encode_ascii(GET_WAVEFORM)))
                    /\ unanswered' = unanswered + 1
                    /\ stream' = reply
                    /\ rxPos' = 0
                    /\ peerEnd' = ending
                    /\ read' = 0
                    /\ buffer' = Zeros(4)
                    /\ pc' = "receive_data_prefix"
                    /\ UNCHANGED <<sock, sockState, err, errVals, retKind, retVal, dec, time, uiVars>>
               ELSE /\ CloseHeld
                    /\ Raises(outcome, {})
                    /\ UNCHANGED <<unanswered, wrote, envVars, read, buffer>>
    /\ UNCHANGED <<rev, length, response, rx, tick>>

\* p1255_2.py: receive_data(), one turn of while received < 4
receive_data_prefix ==
    /\ pc = "receive_data_prefix"
    /\ rx' = RecvResult
    /\ tick' = 1 - tick
    /\ \/ \E n \in RecvCounts(4 - read) :
            /\ rxPos' = rxPos + n
            /\ IF read + n < 4
               THEN /\ read' = read + n
                    /\ buffer' = FillFrom(buffer, read, n)
                    /\ UNCHANGED <<pc, err, errVals, retKind, retVal, dec, time, uiVars, length, unanswered>>
               ELSE IF unpack_le_u32(FillFrom(buffer, read, n)) = 0
               THEN /\ read' = 0
                    /\ length' = 0
                    /\ buffer' = <<>>
                    /\ receive_data_done(<<>>)
                    /\ unanswered' = 0
               ELSE /\ read' = 0
                    /\ length' = unpack_le_u32(FillFrom(buffer, read, n))
                    /\ buffer' = Zeros(unpack_le_u32(FillFrom(buffer, read, n)))
                    /\ pc' = "receive_data_loop"
                    /\ UNCHANGED <<err, errVals, retKind, retVal, dec, time, uiVars, unanswered>>
            /\ UNCHANGED <<sock, sockState>>
       \/ /\ RecvRaises # "none"
          /\ CloseHeld
          /\ Raises(RecvRaises, {})
          /\ UNCHANGED <<rxPos, read, length, buffer, unanswered>>
    /\ UNCHANGED <<rev, op, args, io, wrote, stream, peerEnd, response>>

\* p1255_2.py: receive_data(), one turn of while received < length
receive_data_loop ==
    /\ pc = "receive_data_loop"
    /\ rx' = RecvResult
    /\ tick' = 1 - tick
    /\ \/ \E n \in RecvCounts(length - read) :
            /\ rxPos' = rxPos + n
            /\ read' = read + n
            /\ buffer' = FillFrom(buffer, read, n)
            /\ IF read + n < length
               THEN UNCHANGED <<pc, err, errVals, retKind, retVal, dec, time, uiVars, unanswered>>
               ELSE /\ receive_data_done(FillFrom(buffer, read, n))
                    /\ unanswered' = 0
            /\ UNCHANGED <<sock, sockState>>
       \/ /\ RecvRaises # "none"
          /\ CloseHeld
          /\ Raises(RecvRaises, {})
          /\ UNCHANGED <<rxPos, read, buffer, unanswered>>
    /\ UNCHANGED <<rev, op, args, io, wrote, stream, peerEnd, length, response>>

\* --------------------------------------- receive_scpi_response (p1255_2.py)
\* a token list in which one token begins another
SCPI_RESPONSES_nested ==
    { <<"1">>, <<"1", "K">>, <<"1", "0", "K">>, <<"1", "0", "0", "K">>, <<"1", "M">>,
      <<"1", "0", "M">>, <<"4">>, <<"1", "6">>, <<"6", "4">>, <<"1", "2", "8">>,
      <<"P", "E", "A", "K">>, <<"S", "A", "M", "P", "l", "e">>,
      <<"A", "V", "E", "R", "a", "g", "e">> }

\* commands.py: SCPI_RESPONSES = RESPONSE_MEMDEPTH + RESPONSE_TYPE +
\* RESPONSE_AVERAGE
SCPI_RESPONSES_cm ==
    { <<"1", "K">>, <<"1", "0", "K">>, <<"1", "0", "0", "K">>, <<"1", "M">>,
      <<"1", "0", "M">> }
    \cup { <<"P", "E", "A", "K">>, <<"S", "A", "M", "P", "l", "e">>,
           <<"A", "V", "E", "R", "a", "g", "e">> }
    \cup { <<"4">>, <<"1", "6">>, <<"6", "4">>, <<"1", "2", "8">> }

\* p1255_2.py: SCPI_RESPONSES
SCPI_RESPONSES ==
    { <<"1", "K">>, <<"1", "0", "K">>, <<"1", "0", "0", "K">>, <<"1", "M">>,
      <<"1", "0", "M">>, <<"4">>, <<"1", "6">>, <<"6", "4">>, <<"1", "2", "8">>,
      <<"P", "E", "A", "K">>, <<"S", "A", "M", "P", "l", "e">>,
      <<"A", "V", "E", "R", "a", "g", "e">> }

\* bytes.decode("ascii") of one byte: the character, if the byte is below 128
IsAscii(b) == b < 128
Chr(b) == CHOOSE c \in DOMAIN Ord : Ord[c] = b

\* the reply bytes tried: every string over a few bytes up to MaxScpiLen, and
\* every token followed by one more byte
ScpiBytes == {48, 49, 75, 77, 200}
ScpiReplies ==
    UNION {[1..n -> ScpiBytes] : n \in 0..MaxScpiLen}
    \cup {encode_ascii(t) \o <<b>> : t \in SCPI_RESPONSES, b \in {48, 75}}
    \cup {encode_ascii(t) : t \in SCPI_RESPONSES}

\* p1255_2.py: receive_scpi_response(), entry
receive_scpi_response_start(reply, ending) ==
    /\ pc = "idle" /\ rev = "p1255_2"
    /\ op' = "receive_scpi_response"
    /\ args' = <<>>
    /\ io' = "none"
    /\ IF ~(sock # 0)
       THEN /\ Raises("ConnectionError", {})
            /\ UNCHANGED <<envVars, response>>
       ELSE /\ CanRecv(reply, ending)
            /\ stream' = reply
            /\ rxPos' = 0
            /\ peerEnd' = ending
            /\ response' = <<>>
            /\ pc' = "receive_scpi_response_loop"
            /\ UNCHANGED <<err, errVals, retKind, retVal, dec, time, uiVars>>
    /\ UNCHANGED <<clientVars, wrote, read, length, buffer, rx, tick>>

\* a test that already ends the loop on the beginning of a token
ScpiMatch_prefix(r) ==
    \E t \in SCPI_RESPONSES : Len(r) <= Len(t) /\ SubSeq(t, 1, Len(r)) = r

\* the test that ends the loop: response in SCPI_RESPONSES
ScpiMatch(r) == r \in SCPI_RESPONSES

\* p1255_2.py: receive_scpi_response(), one turn of while True
receive_scpi_response_loop ==
    /\ pc = "receive_scpi_response_loop"
    /\ rx' = RecvResult
    /\ tick' = 1 - tick
    /\ \/ \E n \in RecvCounts(1) :
            /\ rxPos' = rxPos + n
            /\ IF n = 1 /\ ~IsAscii(stream[rxPos + 1])
               THEN /\ Raises("UnicodeDecodeError", {})
                    /\ UNCHANGED <<response, unanswered>>
               ELSE /\ response' = IF n = 1 THEN Append(response, Chr(stream[rxPos + 1]))
                                   ELSE response
                    /\ IF ScpiMatch(response')
                       THEN /\ Returns("str", response')
                            /\ unanswered' = 0
                       ELSE UNCHANGED <<pc, err, errVals, retKind, retVal, dec, time, uiVars, unanswered>>
            /\ UNCHANGED <<sock, sockState>>
       \/ /\ RecvRaises = "TimeoutError"
          /\ Raises("TimeoutError", {})
          /\ UNCHANGED <<sock, sockState, rxPos, response, unanswered>>
       \/ /\ RecvRaises \notin {"none", "TimeoutError"}
          /\ CloseHeld
          /\ Raises(RecvRaises, {})
          /\ UNCHANGED <<rxPos, response, unanswered>>
    /\ UNCHANGED <<rev, op, args, io, wrote, stream, peerEnd, read, length, buffer>>

\* ------------------------------------------------- capture (capture.py)
\* capture.py: capture(address, port), up to the request write.  The socket
\* is a local of the call; is_address says whether address is an IPv4Address.
capture_py_send(is_address, port, connected, outcome, reply, ending) ==
    /\ pc = "idle" /\ rev = "capture_py"
    /\ op' = "capture"
    /\ args' = <<is_address, port>>
    /\ IF ~is_address \/ ~(0 < port /\ port < 65536)
       THEN /\ io' = "none"
            /\ Raises("ValueError", {})
            /\ UNCHANGED <<sock, sockState, unanswered, wrote, envVars, read, buffer>>
       ELSE /\ FreeIds # {}
            /\ io' = IF connected # "ok" THEN connected ELSE outcome
            /\ IF connected # "ok"
               THEN /\ sockState' = [sockState EXCEPT ![NewId] = "created"]
                    /\ Raises(connected, {})
                    /\ UNCHANGED <<sock, unanswered, wrote, envVars, read, buffer>>
               ELSE IF outcome # "ok"
               THEN /\ sockState' = [sockState EXCEPT ![NewId] = "connected"]
                    /\ Raises(outcome, {})
                    /\ UNCHANGED <<sock, unanswered, wrote, envVars, read, buffer>>
               ELSE /\ sock' = NewId
                    /\ sockState' = [sockState EXCEPT ![NewId] = "connected"]
                    /\ wrote' = encode_ascii(GET_WAVEFORM)
                    /\ unanswered' = 1
                    /\ stream' = reply
                    /\ rxPos' = 0
                    /\ peerEnd' = ending
                    /\ read' = 0
                    /\ buffer' = Zeros(2)
                    /\ pc' = "capture_py_prefix"
                    /\ UNCHANGED <<err, errVals, retKind, retVal, dec, time, uiVars>>
    /\ UNCHANGED <<rev, length, response, rx, tick>>

\* capture.py: read = sock.recv_into(payload, 2) on the blocking socket, and
\* the total length.  A peer that stalls leaves the call blocked: no step.
capture_py_prefix ==
    /\ pc = "capture_py_prefix"
    /\ rx' = RecvResult
    /\ tick' = 1 - tick
    /\ \/ \E k \in RecvCounts(2) :
            /\ rxPos' = rxPos + k
            /\ IF k # 2
               THEN /\ Raises("RuntimeError", {})
                    /\ sock' = 0
                    /\ read' = k
                    /\ UNCHANGED <<length, buffer>>
               ELSE /\ read' = 2
                    /\ length' = unpack_le_u16(FillFrom(Zeros(2), 0, 2)) + 12
                    /\ buffer' = FillFrom(Zeros(unpack_le_u16(FillFrom(Zeros(2), 0, 2)) + 12),
                                          0, 2)
                    /\ pc' = "capture_py_loop"
                    /\ UNCHANGED <<sock, err, errVals, retKind, retVal, dec, time, uiVars>>
       \/ /\ RecvRaises = "ConnectionResetError"
          /\ Raises("ConnectionResetError", {})
          /\ sock' = 0
          /\ UNCHANGED <<rxPos, read, length, buffer>>
    /\ UNCHANGED <<rev, sockState, unanswered, op, args, io, wrote, stream, peerEnd, response>>

\* capture.py: one turn of while read < length, then sock.close()
capture_py_loop ==
    /\ pc = "capture_py_loop"
    /\ rx' = IF read < length THEN RecvResult ELSE rx
    /\ IF read < length
       THEN /\ tick' = 1 - tick
            /\ \/ \E n \in RecvCounts(length - read) :
                    /\ rxPos' = rxPos + n
                    /\ read' = read + n
                    /\ buffer' = FillFrom(buffer, read, n)
                    /\ UNCHANGED <<sock, sockState, unanswered, pc, err, errVals,
                                   retKind, retVal, dec, time, uiVars>>
               \/ /\ RecvRaises = "ConnectionResetError"
                  /\ Raises("ConnectionResetError", {})
                  /\ sock' = 0
                  /\ UNCHANGED <<sockState, unanswered, rxPos, read, buffer>>
       ELSE /\ CloseHeld
            /\ unanswered' = 0
            /\ Returns("bytearray", buffer)
            /\ UNCHANGED <<rxPos, read, buffer, tick>>
    /\ UNCHANGED <<rev, op, args, io, wrote, stream, peerEnd, length, response>>

\* ------------------------------------------------------- the window (gui.py)
\* The window owns one client of p1255.py; of the client it needs the socket
\* it holds (sock, sockState).  Its handlers run on the event loop of Qt, one
\* at a time, but QMessageBox.critical() runs an event loop of its own until
\* the box is closed: the window takes no clicks meanwhile, timers still fire.

\* the variables of the client calls, which the window does not look at
callVars == <<rev, unanswered, pc, op, args, io, err, errVals, wrote, retKind,
              retVal, dec, time, envVars, localVars>>

\* how self.p1255.capture() ends on a client that holds a socket
CaptureOutcomes == {"Dataset", "ConnectionError", "Exception"}

\* gui.py: start_updating() and stop_updating()
start_updating == timer' = "active"
stop_updating == timer' = "None"

\* gui.py: toggle_run(checked)
toggle_run(checked) ==
    /\ run_checked' = checked
    /\ IF checked
       THEN run_text' = "Stop" /\ start_updating
       ELSE run_text' = "Run Continuously" /\ stop_updating

\* gui.py: MainWindow.disconnect(): self.p1255.disconnect(), then the text
gui_disconnect ==
    /\ IF sock # 0 THEN CloseHeld ELSE UNCHANGED <<sock, sockState>>
    /\ connect_text' = "Connect"

\* gui.py: capture_single(), up to the message box of its except branches
capture_single(outcome) ==
    /\ IF sock = 0
       THEN /\ outcome = "Dataset"
            /\ current_dataset' = "None"
            /\ UNCHANGED dialogs
       ELSE IF outcome = "Dataset"
       THEN /\ current_dataset' = "Dataset"
            /\ UNCHANGED dialogs
       ELSE /\ Len(dialogs) < MaxDialogs
            /\ dialogs' = Append(dialogs, "capture_single")
            /\ UNCHANGED current_dataset
    /\ UNCHANGED <<timer, run_checked, run_text, connect_text, sock, sockState>>
    /\ UNCHANGED <<callVars, tuiVars>>

\* gui.py: connect_to_ip(); valid: the texts are an IPv4 address and a port
connect_to_ip(valid, outcome) ==
    /\ dialogs = <<>>
    /\ IF ~valid
       THEN /\ outcome = "ok"
            /\ dialogs' = Append(dialogs, "connect_to_ip")
            /\ UNCHANGED <<sock, sockState, connect_text>>
       ELSE /\ FreeIds # {}
            /\ IF outcome = "ok"
               THEN /\ sock' = NewId
                    /\ sockState' = [sockState EXCEPT ![NewId] = "connected"]
                    /\ connect_text' = "Connected"
                    /\ UNCHANGED dialogs
               ELSE /\ sock' = 0
                    /\ sockState' = [sockState EXCEPT ![NewId] = "closed"]
                    /\ dialogs' = Append(dialogs, "connect_to_ip")
                    /\ UNCHANGED connect_text
    /\ UNCHANGED <<timer, run_checked, run_text, current_dataset>>
    /\ UNCHANGED <<callVars, tuiVars>>

\* the user presses the run button: Qt toggles it and emits clicked(checked)
run_button_clicked ==
    /\ dialogs = <<>>
    /\ toggle_run(~run_checked)
    /\ UNCHANGED <<connect_text, current_dataset, dialogs, sock, sockState>>
    /\ UNCHANGED <<callVars, tuiVars>>

\* the user presses the capture button
capture_button_clicked(outcome) == dialogs = <<>> /\ capture_single(outcome)

\* the QTimer of start_updating fires
timer_timeout(outcome) == timer = "active" /\ capture_single(outcome)

\* the user closes the innermost message box and its handler goes on:
\* capture_single with toggle_run(False) and disconnect(), connect_to_ip
\* with return
message_box_closed ==
    /\ dialogs # <<>>
    /\ dialogs' = SubSeq(dialogs, 1, Len(dialogs) - 1)
    /\ IF dialogs[Len(dialogs)] = "capture_single"
       THEN toggle_run(FALSE) /\ gui_disconnect
       ELSE UNCHANGED <<timer, run_checked, run_text, connect_text, sock, sockState>>
    /\ UNCHANGED current_dataset
    /\ UNCHANGED <<callVars, tuiVars>>

GuiNext ==
    \/ run_button_clicked
    \/ \E o \in CaptureOutcomes : capture_button_clicked(o)
    \/ \E o \in CaptureOutcomes : timer_timeout(o)
    \/ \E v \in BOOLEAN, o \in ConnectOutcomes : connect_to_ip(v, o)
    \/ message_box_closed

\* ------------------------------------------------- the terminal UI (tui.py)
\* tui.py: ip_input(): length=15, and num_input(5, "3000") of control
IpLength == 15
PortLength == 5
IpPlaceholder == <<"1", "2", "7", ".", "0", ".", "0", ".", "1">>
PortPlaceholder == <<"3", "0", "0", "0">>

\* the fields as typing has left them when the run begins: as constructed,
\* emptied with backspace, filled to their length, the cursor moved
IpFields ==
    {[text |-> IpPlaceholder, cursor |-> 9], [text |-> <<>>, cursor |-> 0]}
    \cup {[text |-> IpPlaceholder \o <<"1", "1", "1", "1", "1", "1">>, cursor |-> c] :
             c \in {0, 7, 15}}
PortFields ==
    {[text |-> PortPlaceholder, cursor |-> 4], [text |-> <<>>, cursor |-> 0]}
    \cup {[text |-> PortPlaceholder \o <<"1">>, cursor |-> c] : c \in {0, 2, 5}}

\* A key is what stdscr.get_wch() gave: a character (str), a key code (int,
\* named as in curses, "127" the code 127), or None when no key waits.
StrKey(c) == [kind |-> "str", val |-> c]
IntKey(n) == [kind |-> "int", val |-> n]
NoKey == [kind |-> "none", val |-> "None"]
Keys ==
    {StrKey(c) : c \in {"1", ".", "a", " "}}
    \cup {IntKey(n) : n \in {"KEY_LEFT", "KEY_RIGHT", "KEY_BACKSPACE", "127", "KEY_DC",
                             "KEY_UP", "KEY_DOWN", "KEY_RESIZE"}}
    \cup {NoKey}

\* str.isdecimal() of one character, and the keys that press a button:
\* key.isspace() or key in [" ", "\n", "\t"]
isdecimal(c) == c \in {"0", "1", "2", "3", "4", "5", "6", "7", "8", "9"}
Presses(key) == key.kind = "str" /\ key.val \in {" ", "\n", "\t"}

\* text[0:cursor] + c + text[cursor:], cut to the first n characters
InsertCut(text, cursor, c, n) ==
    LET t == SubSeq(text, 1, cursor) \o <<c>> \o SubSeq(text, cursor + 1, Len(text))
    IN  IF Len(t) <= n THEN t ELSE SubSeq(t, 1, n)

\* an input field that moves the cursor behind the last character on every
\* key it takes
num_input_jumping(width, text, cursor, key) ==
    IF key.kind = "str" /\ isdecimal(key.val)
    THEN [text |-> InsertCut(text, cursor, key.val, width - 1),
          cursor |-> Len(text) + 1, ret |-> NoKey]
    ELSE [text |-> text, cursor |-> cursor, ret |-> key]

\* tui.py: num_input.input(key) on a field of self.width = width: the text
\* and the cursor it leaves and the value it returns
num_input(width, text, cursor, key) ==
    IF key.kind = "str" /\ isdecimal(key.val)
    THEN [text |-> InsertCut(text, cursor, key.val, width - 1),
          cursor |-> Min(Len(InsertCut(text, cursor, key.val, width - 1)), cursor + 1),
          ret |-> NoKey]
    ELSE IF key.kind = "int"
    THEN CASE key.val = "KEY_LEFT" ->
                [text |-> text, cursor |-> IF cursor - 1 > 0 THEN cursor - 1 ELSE 0,
                 ret |-> NoKey]
           [] key.val = "KEY_RIGHT" ->
                [text |-> text, cursor |-> Min(Len(text), cursor + 1), ret |-> NoKey]
           [] key.val \in {"KEY_BACKSPACE", "127"} ->
                IF cursor > 0
                THEN [text |-> SubSeq(text, 1, cursor - 1) \o SubSeq(text, cursor + 1, Len(text)),
                      cursor |-> cursor - 1, ret |-> NoKey]
                ELSE [text |-> text, cursor |-> cursor, ret |-> NoKey]
           [] key.val = "KEY_DC" ->
                IF cursor < Len(text)
                THEN [text |-> SubSeq(text, 1, cursor) \o SubSeq(text, cursor + 2, Len(text)),
                      cursor |-> cursor, ret |-> NoKey]
                ELSE [text |-> text, cursor |-> cursor, ret |-> NoKey]
           [] OTHER -> [text |-> text, cursor |-> cursor, ret |-> key]
    ELSE [text |-> text, cursor |-> cursor, ret |-> key]

\* tui.py: ip_input.input(key): num_input.input, and the dot
ip_input(width, text, cursor, key) ==
    LET r == num_input(width, text, cursor, key)
    IN  IF r.ret = StrKey(".")
        THEN IF r.cursor < width - 1
             THEN [text |-> InsertCut(r.text, r.cursor, ".", width - 1),
                   cursor |-> Min(Len(InsertCut(r.text, r.cursor, ".", width - 1)),
                                  r.cursor + 1),
                   ret |-> NoKey]
             ELSE [text |-> r.text, cursor |-> r.cursor, ret |-> NoKey]
        ELSE r

\* tui.py: checkbox.input(key), save.input(key), exit_button.input(key): the
\* value returned; exit_button.trigger() ends the program
Toggles(key) == key.kind = "str" /\ key.val \in {" ", "\n", "\t", "x", "X"}

\* tui.py: connection_status.redraw(): the text drawn
status_redraw == status_line' = IF status_connected THEN "Connected" ELSE "Disconnected"

\* tui.py: connection_status.set_status(status)
set_status(s) ==
    /\ status' = s
    /\ status_redraw
    /\ UNCHANGED status_connected

\* tui.py: connect_button.trigger(); reachable is what ping() answers
connect_button_trigger(reachable) ==
    /\ button_connected' = ~button_connected
    /\ IF reachable THEN set_status("True") ELSE set_status("False")

\* tui.py: control.input(key): the active element gets the key, and the
\* keys it hands back move the choice up and down
control_input(key, reachable) ==
    LET field == IF active = 0 THEN ip_input(IpLength + 1, ip_text, ip_cursor, key)
                 ELSE num_input(PortLength + 1, port_text, port_cursor, key)
        pressed == active >= 2 /\ (IF active = 3 THEN Toggles(key) ELSE Presses(key))
        ret == IF active <= 1 THEN field.ret ELSE IF pressed THEN NoKey ELSE key
    IN  /\ keys < MaxKeys
        /\ keys' = keys + 1
        /\ ~(active = 5 /\ pressed)
        /\ key_in' = key
        /\ key_ret' = ret
        /\ IF active = 0
           THEN /\ ip_text' = field.text /\ ip_cursor' = field.cursor
                /\ UNCHANGED <<port_text, port_cursor>>
           ELSE IF active = 1
           THEN /\ port_text' = field.text /\ port_cursor' = field.cursor
                /\ UNCHANGED <<ip_text, ip_cursor>>
           ELSE UNCHANGED <<ip_text, ip_cursor, port_text, port_cursor>>
        /\ IF active = 2 /\ pressed
           THEN connect_button_trigger(reachable)
           ELSE /\ reachable
                /\ UNCHANGED <<button_connected, status_connected, status, status_line>>
        /\ refresh_checked' = IF active = 3 /\ pressed THEN ~refresh_checked
                              ELSE refresh_checked
        /\ active' = IF ret = IntKey("KEY_DOWN") THEN Min(5, active + 1)
                     ELSE IF ret = IntKey("KEY_UP")
                     THEN (IF active - 1 > 0 THEN active - 1 ELSE 0)
                     ELSE active
        /\ UNCHANGED <<sock, sockState, callVars, guiVars>>

TuiNext == \E key \in Keys, reachable \in BOOLEAN : control_input(key, reachable)

\* ------------------------------------------------------------------- spec
\* the state after construction, but for the two input fields
InitButFields ==
    /\ rev \in {"p1255", "p1255_2", "capture_py", "data_py"}
    /\ sock = 0
    /\ sockState = [i \in SockIds |-> "unused"]
    /\ unanswered = 0
    /\ pc = "idle"
    /\ op = "none"
    /\ args = <<>>
    /\ io = "none"
    /\ err = "none"
    /\ errVals = {}
    /\ wrote = <<>>
    /\ retKind = "None"
    /\ retVal = <<>>
    /\ dec = <<>>
    /\ time = <<>>
    /\ stream = <<>>
    /\ rxPos = 0
    /\ peerEnd = "stall"
    /\ read = 0
    /\ length = 0
    /\ buffer = <<>>
    /\ response = <<>>
    /\ rx = "none"
    /\ tick = 0
    /\ timer = "None"
    /\ run_checked = FALSE
    /\ run_text = "Run Continuously"
    /\ connect_text = "Connect"
    /\ current_dataset = "None"
    /\ dialogs = <<>>
    /\ active = 0
    /\ key_in = NoKey
    /\ key_ret = NoKey
    /\ keys = 0
    /\ refresh_checked = FALSE
    /\ button_connected = FALSE
    /\ status_connected = FALSE
    /\ status = "unset"
    /\ status_line = "Disconnected"

Init ==
    /\ InitButFields
    /\ ip_text = IpPlaceholder
    /\ ip_cursor = Len(IpPlaceholder)
    /\ port_text = PortPlaceholder
    /\ port_cursor = Len(PortPlaceholder)

\* the calls a caller can make on an idle client of each revision
Idle(r) == pc = "idle" /\ rev = r

Next ==
    \/ Idle("p1255") /\ \E a \in Addresses, p \in Ports, o \in ConnectOutcomes :
            connect_p1255(a, p, o)
    \/ Idle("p1255_2") /\ \E a \in Addresses, p \in Ports, o \in ConnectOutcomes :
            connect_p1255_2(a, p, o)
    \/ disconnect_p1255
    \/ disconnect_p1255_2
    \/ Idle("p1255_2") /\ \E c \in PlainCommands, o \in SendOutcomes :
            send_scpi_command(c, o)
    \/ Idle("p1255") /\ \E c \in TriggerCouplings, m \in TriggerModes, f \in TriggerFlanks,
          l \in Levels, ch \in Channels, t \in TriggerTypes, o \in SendOutcomes :
            set_trigger_configuration(c, m, f, l, ch, t, o)
    \/ Idle("p1255") /\ \E ch \in Channels, p \in ProbeRates, c \in ChannelCouplings,
          v \in Voltbases, o \in SendOutcomes :
            set_channel_configuration(ch, p, c, v, o)
    \/ Idle("p1255") /\ \E a \in Addresses, p \in Ports, sn \in Subnets, g \in Gateways,
          o \in SendOutcomes :
            set_ip_configuration(a, p, sn, g, o)
    \/ Idle("p1255") /\ \E o \in SendOutcomes, r \in CaptureReplies, e \in PeerEnds :
            capture_send(o, r, e)
    \/ capture_prefix
    \/ capture_loop
    \/ Idle("p1255_2") /\ \E r \in DataReplies, e \in PeerEnds \cup {"notconn"} :
            receive_data_start(r, e)
    \/ receive_data_prefix
    \/ receive_data_loop
    \/ Idle("p1255_2") /\ \E r \in ScpiReplies, e \in PeerEnds \cup {"notconn"} :
            receive_scpi_response_start(r, e)
    \/ receive_scpi_response_loop
    \/ Idle("capture_py") /\ \E ia \in BOOLEAN, p \in Ports, c \in ConnectOutcomes,
          o \in SendOutcomes, r \in SmallCaptureReplies, e \in PeerEnds :
            capture_py_send(ia, p, c, o, r, e)
    \/ capture_py_prefix
    \/ capture_py_loop
    \/ Idle("p1255") /\ \E b \in DatasetInputs : Dataset_init(b)
    \/ Idle("data_py") /\ \E b \in WaveInputs, md \in Memdepths : Waveform_init(b, md)
    \/ Idle("p1255_2") /\ \E b \in WaveInputs : interpret_waveform_call(b)
    \/ Idle("data_py") /\ \E i \in TimeIndices : calc_timescale_data_call(i)
    \/ Idle("p1255_2") /\ \E i \in TimeIndices : calc_timescale_cm_call(i)
    \/ Idle("p1255_2") /\ \E o \in SendOutcomes, r \in WaveformReplies, e \in PeerEnds :
            get_waveform_start(o, r, e)
    \/ Idle("data_py") /\ \E a \in Addresses, p \in Ports, g \in Gateways, m \in Subnets :
            network_call(a, p, g, m)
    \/ Idle("data_py") /\ \E v \in Voltages : trigger_voltage_call(v)
    \/ Idle("p1255_2") /\ \E v \in Voltages : trigger_voltage_cm_call(v)
    \/ Idle("p1255_2") /\ \E a \in Addresses, p \in Ports, g \in Gateways, m \in Subnets :
            network_cm_call(a, p, g, m)
    \/ Idle("data_py") /\ \E b \in BmpInputs : BMP_init(b)
    \/ Idle("p1255_2") /\ \E b \in BmpInputs : interpret_bmp_call(b)
    \/ Idle("p1255") /\ \E b \in DatasetInputs, f \in Formats : Dataset_save(b, f)
    \/ Return

Spec == Init /\ [][Next]_vars

\* the interpreter keeps running a call that has a next step
FairSpec == Spec /\ WF_vars(receive_scpi_response_loop)

\* the window, with its client of p1255.py
GuiInit == Init /\ rev = "p1255"
GuiSpec == GuiInit /\ [][GuiNext]_vars

\* the terminal UI, which captures with capture.py
TuiInit ==
    /\ InitButFields /\ rev = "capture_py"
    /\ \E f \in IpFields, p \in PortFields :
          /\ ip_text = f.text /\ ip_cursor = f.cursor
          /\ port_text = p.text /\ port_cursor = p.cursor
TuiSpec == TuiInit /\ [][TuiNext]_vars

\* -------------------------------------------------------------- properties
Done == pc \in {"returned", "raised"}

\* commands written on the connection the client holds that no read has answered
Outstanding == IF sock = 0 THEN 0 ELSE unanswered

\* the socket the last connect created
LastCreated == CHOOSE i \in SockIds :
    /\ sockState[i] # "unused"
    /\ \A j \in SockIds : sockState[j] # "unused" => j <= i

\* C1: a command sent while another one awaits its reply is rejected with
\* IllegalState and writes nothing, so at most one command is ever outstanding
\* on the connection.
C1_OneCommandOutstanding ==
    /\ Outstanding <= 1
    /\ (Done /\ Outstanding > 1) => (err = "IllegalState" /\ wrote = <<>>)

\* the arguments of a setter call as the specification reads them
TriggerArgsInTables ==
    /\ args[1] \in DOMAIN TRIGGER_COUPLING_MAP
    /\ args[2] \in DOMAIN MODE_MAP
    /\ args[3] \in DOMAIN FLANK_MAP
    /\ args[5] \in DOMAIN TRIGGER_CHANNEL_MAP
    /\ args[6] \in DOMAIN TRIGGER_TYPE_MAP_ASCII
ChannelArgsInTables ==
    /\ args[1] \in DOMAIN CHANNEL_MAP
    /\ args[2] \in DOMAIN PROBERATE_MAP
    /\ args[3] \in DOMAIN CHANNEL_COUPLING_MAP
    /\ args[4] \in DOMAIN VOLTBASE_MAP
IpArgsWellFormed ==
    /\ IPv4Valid(args[1])
    /\ args[2] \in 0..65535
    /\ IPv4Valid(args[3])
    /\ IPv4Valid(args[4])
SetterArgsBad ==
    \/ op = "set_trigger_configuration" /\ ~TriggerArgsInTables
    \/ op = "set_channel_configuration" /\ ~ChannelArgsInTables
    \/ op = "set_ip_configuration" /\ ~IpArgsWellFormed

\* C2: a setter given an argument outside its table, or a malformed address or
\* port, fails with the invalid-parameter error (ValueError) and has written
\* no byte.
C2_SettersValidateFirst ==
    (Done /\ SetterArgsBad) => (pc = "raised" /\ err = "ValueError" /\ wrote = <<>>)

\* the stream holds a whole short-memory frame: its prefix and the d + 12 bytes
WholeFrame ==
    /\ Len(stream) >= 2
    /\ Len(stream) >= unpack_le_u16(stream) + 12

\* C3: whatever d the prefix declares and however the d + 12 bytes are split
\* into deliveries, the short-memory capture returns exactly these d + 12
\* bytes and has consumed exactly d + 12 bytes.
C3_CaptureReadsWholeFrame ==
    (op = "capture" /\ Done /\ WholeFrame) =>
        /\ pc = "returned"
        /\ retVal = SubSeq(stream, 1, unpack_le_u16(stream) + 12)
        /\ rxPos = unpack_le_u16(stream) + 12

\* the peer closed inside a frame whose prefix the client has read
CutFrame ==
    /\ peerEnd = "close"
    /\ \/ /\ rev = "p1255" /\ op = "capture" /\ rxPos >= 2
          /\ Len(stream) < unpack_le_u16(stream) + 12
       \/ /\ op = "receive_data" /\ rxPos >= 4
          /\ Len(stream) < unpack_le_u32(stream) + 4
FrameTotal ==
    IF op = "capture" THEN unpack_le_u16(stream) + 12 ELSE unpack_le_u32(stream) + 4

\* C4: when the peer closes after r bytes of a frame of t bytes, r < t, the
\* read fails with an error that reports r and t.
C4_IncompleteFrameReported ==
    (Done /\ CutFrame) =>
        (pc = "raised" /\ Len(stream) \in errVals /\ FrameTotal \in errVals)

FrameLoops == {"capture_loop", "capture_py_loop", "receive_data_prefix",
               "receive_data_loop"}

\* C5: a frame-reading loop does not go on after the connection has closed: a
\* receive made when the peer has closed and nothing is left ends the loop.
C5_NoLoopAfterClose ==
    [][(pc \in FrameLoops /\ Avail = 0 /\ peerEnd = "close" /\ tick' # tick)
          => pc' \notin FrameLoops]_vars

\* the characters of the first k bytes of the stream
Consumed(k) == [i \in 1..k |-> Chr(stream[i])]

\* C6: the SCPI response reader returns at the first moment the accumulated
\* string is a token, returns that token, and has consumed no byte after it;
\* while it reads on, nothing it accumulated so far was a token.
C6_ScpiReturnsOnFirstMatch ==
    /\ (op = "receive_scpi_response" /\ pc = "returned") =>
          /\ retVal \in SCPI_RESPONSES
          /\ retVal = Consumed(rxPos)
          /\ \A k \in 0..(rxPos - 1) : Consumed(k) \notin SCPI_RESPONSES
    /\ pc = "receive_scpi_response_loop" =>
          /\ response = Consumed(rxPos)
          /\ \A k \in 0..rxPos : Consumed(k) \notin SCPI_RESPONSES

C6_Witness ==
    /\ op = "receive_scpi_response" /\ pc = "returned"
    /\ retVal = <<"1", "0", "0", "K">>
    /\ Avail > 0

\* C7: when no token ever completes (no bytes, bytes that match nothing, a peer
\* that closed) the SCPI response reader ends all the same: it does not read
\* forever.
C7_ScpiReadEnds ==
    (pc = "receive_scpi_response_loop" /\ peerEnd \in {"close", "stall"}) ~> Done

\* C8: a connect that the OS fails raises that error, leaves the socket it
\* created closed, and leaves the client without a socket.
C8_FailedConnectLeavesNoSocket ==
    (op = "connect" /\ Done /\ io \notin {"none", "ok"}) =>
        /\ pc = "raised" /\ err = io
        /\ sock = 0
        /\ sockState[LastCreated] = "closed"

C8_Witness ==
    /\ op = "connect" /\ pc = "raised" /\ io = "ConnectionRefusedError"
    /\ \E i \in SockIds : sockState[i] = "connected"

\* C9: disconnect never fails and leaves the client without a socket and with
\* nothing outstanding; on a disconnected client it changes nothing, on a
\* connected one it closes the held socket and nothing else.
C9_DisconnectIdempotent ==
    /\ [](op = "disconnect" /\ Done =>
            pc = "returned" /\ err = "none" /\ sock = 0 /\ Outstanding = 0)
    /\ [][(pc = "idle" /\ op' = "disconnect") =>
            /\ pc' = "returned"
            /\ unanswered' = unanswered
            /\ sockState' = IF sock = 0 THEN sockState
                            ELSE [sockState EXCEPT ![sock] = "closed"]]_vars

C9_Witness ==
    /\ op = "disconnect" /\ pc = "returned"
    /\ \A i \in SockIds : sockState[i] = "unused"

WriteOps == {"send_command", "capture", "set_trigger_configuration",
             "set_channel_configuration", "set_ip_configuration"}

\* C10: when the write of a command fails, the call fails with a connection
\* error and the client is disconnected: the socket closed, no reference held.
C10_WriteErrorDisconnects ==
    (rev # "capture_py" /\ op \in WriteOps /\ Done /\ io \notin {"none", "ok"}) =>
        /\ pc = "raised" /\ IsOSError(err)
        /\ sock = 0

\* the calls that read a reply from the connection
ReadOps == {"capture", "receive_data", "receive_scpi_response", "get_waveform"}
ClientRevs == {"p1255", "p1255_2"}

\* C11: when a read on an established connection fails, or the peer closes
\* in the middle of a reply, the call raises a connection failure and leaves
\* the client disconnected: the socket closed, no socket held.
C11_ReadFailureDisconnects ==
    (rev \in ClientRevs /\ op \in ReadOps /\ Done
        /\ rx \in {"eof", "ConnectionResetError"}) =>
        (pc = "raised" /\ IsOSError(err) /\ sock = 0)

\* C12: after a read that ended by timeout, in a frame reader or in the SCPI
\* response reader, the client is disconnected.
C12_TimeoutDisconnects ==
    (rev \in ClientRevs /\ op \in ReadOps /\ Done /\ rx = "TimeoutError") =>
        (pc = "raised" /\ sock = 0)

\* the calls that validate their arguments
ValidatedOps == {"connect", "capture", "network", "set_trigger_configuration",
                 "set_channel_configuration", "set_ip_configuration"}

\* C13: a call that fails with the invalid-parameter error (ValueError) leaves
\* the connection as it was: the same socket held, every socket in the state
\* it had, nothing written.
C13_InvalidParameterKeepsConnection ==
    [][(pc = "idle" /\ pc' = "raised" /\ err' = "ValueError" /\ op' \in ValidatedOps)
          => /\ sock' = sock
             /\ sockState' = sockState
             /\ unanswered' = unanswered
             /\ wrote' = <<>>]_vars

C13_Witness ==
    /\ op = "set_channel_configuration" /\ pc = "raised" /\ err = "ValueError"
    /\ sock # 0 /\ sockState[sock] = "connected" /\ unanswered = 1

\* the errors a reply that does not decode ends in
DecodeErrors == {"RuntimeError", "ZeroDivisionError", "IndexError", "struct.error",
                 "ValueError", "UnicodeDecodeError"}

\* C14: when a capture fails only because the bytes received do not decode,
\* no socket operation having failed, the client is still connected: it
\* holds its socket and the socket is open.
C14_DecodeFailureKeepsConnection ==
    (rev \in ClientRevs /\ op \in {"capture", "get_waveform"} /\ pc = "raised"
        /\ io = "ok" /\ rx = "data" /\ err \in DecodeErrors) =>
        (sock # 0 /\ sockState[sock] = "connected")

C14_Witness ==
    /\ op = "capture" /\ pc = "raised" /\ err = "ZeroDivisionError"
    /\ rx = "data" /\ sock # 0

\* C15: send, capture and the setters called on a client that is not
\* connected do not return as if they had succeeded: they raise.
C15_NotConnectedReportsFailure ==
    (rev \in ClientRevs /\ op \in WriteOps \cup {"get_waveform"} /\ Done
        /\ io = "none" /\ sock = 0) => pc = "raised"

\* the decoders called on their own, the reply they were given, the length of
\* the waveform header in it and the place of its channel bitmap
DecodeOps == {"Dataset", "Waveform", "interpret_waveform"}
Reply == args[1]
HeaderLen == IF op = "Dataset" THEN LEN_HEADER ELSE WAVEFORM_HEADER
BitmapAt == IF op = "Dataset" THEN CHANNEL_BITMAP + 1 ELSE WAVEFORM_HEADER - 12
DecodeDone == op \in DecodeOps /\ Done /\ Len(Reply) >= HeaderLen
ChannelCount == bit_count(Reply[BitmapAt])
PayloadLen == Len(Reply) - HeaderLen

\* C16: a waveform reply whose channel bitmap has no bit set fails to decode
\* with the decoder's protocol error (ValueError, as the other malformed
\* replies), whatever the length of the payload; no dataset is returned.
C16_ZeroChannelsIsProtocolError ==
    (DecodeDone /\ ChannelCount = 0) => (pc = "raised" /\ err = "ValueError")

\* C17: with n >= 1 channels and L payload bytes after the header (enough of
\* them for n channel headers), decoding fails with the protocol error
\* (ValueError) exactly when L mod n # 0, and then builds no channel.
C17_SplitFailsIffNotDivisible ==
    (DecodeDone /\ ChannelCount >= 1 /\ PayloadLen >= 59 * ChannelCount) =>
        /\ (pc = "raised" /\ err = "ValueError") <=> (PayloadLen % ChannelCount # 0)
        /\ (PayloadLen % ChannelCount # 0) => dec = <<>>

\* the bytes of a channel slice behind its header of 59 bytes
SampleBytes == (PayloadLen \div ChannelCount) - 59

\* C18: a channel slice with an odd number of bytes behind the channel header
\* fails to decode; every channel that is produced holds all the bytes behind
\* its header as whole 16-bit samples.
C18_OddSampleBytesFail ==
    /\ (DecodeDone /\ ChannelCount >= 1 /\ SampleBytes > 0 /\ SampleBytes % 2 = 1)
          => pc = "raised"
    /\ \A i \in 1..Len(dec) :
          dec[i].used >= 59 => 2 * Len(dec[i].raw) = dec[i].used - 59

C18_Witness ==
    /\ op = "Waveform" /\ pc = "raised" /\ err = "struct.error"
    /\ ChannelCount = 1 /\ SampleBytes = 3

\* the number a Sci pair stands for, for the small exponents of the table
SciValue(x) ==
    x[1] * (0 :> 1 @@ 1 :> 10 @@ 2 :> 100 @@ 3 :> 1000 @@ 4 :> 10000 @@ 5 :> 100000)[x[2]]

\* byte k of the slice of channel i, the voltscale index byte of the first
ChannelByte(i, k) == Reply[HeaderLen + (i - 1) * (PayloadLen \div ChannelCount) + k]
VoltIndex == ChannelByte(1, 36)

\* C19: a voltscale index i <= 11 decodes to entry i of the table of volts per
\* division; an index i >= 12 makes the decoding of the channel fail.
C19_VoltscaleFromTable ==
    (DecodeDone /\ ChannelCount >= 1 /\ Len(Reply) >= HeaderLen + 36) =>
        /\ VoltIndex >= 12 => pc = "raised"
        /\ \A i \in 1..Len(dec) :
              /\ ChannelByte(i, 36) <= 11
              /\ SciValue(dec[i].voltscale) = VOLTBASELIST[ChannelByte(i, 36) + 1]

\* the time of the screen for timescale index i, in nanoseconds
TimescaleOf(i) == Sci(15 * (IF i % 3 = 0 THEN 1 ELSE IF i % 3 = 1 THEN 2 ELSE 5), i \div 3)

Clamp(v) == IF v < -7000 THEN -7000 ELSE IF v > 5000 THEN 5000 ELSE v

\* the last 4 bytes of the command written: its level field
LevelField == SubSeq(wrote, Len(wrote) - 3, Len(wrote))

\* C21: the trigger level is clamped to -7 V .. +5 V and then converted:
\* trigger_voltage(v) and the level field set_trigger_configuration emits are
\* the big-endian signed 32-bit encoding of round(clamp(v) / 0.04), so -8 V
\* encodes as -175 steps and 6 V as 125 steps.
C21_TriggerLevelClamped ==
    /\ (op = "trigger_voltage" /\ pc = "returned") =>
          retVal = hex(pack_be_i32(round_steps(Clamp(args[1]))))
    /\ (rev = "p1255" /\ op = "set_trigger_configuration" /\ Done
            /\ TriggerArgsInTables /\ sock # 0 /\ io \in {"none", "ok"}) =>
          /\ pc = "returned"
          /\ LevelField = pack_be_i32(round_steps(Clamp(args[4])))

\* the 16 bytes of a network configuration
NetworkBytes(ip, port, mask, gateway) ==
    packed(ip) \o to_bytes_4_big(port) \o packed(mask) \o packed(gateway)

\* C22: for valid IPv4 ip, mask and gateway and a port in 0..65535 the network
\* configuration is encoded as 16 bytes: ip, port as 4 bytes big-endian, mask,
\* gateway; a malformed address or a port outside 0..65535 is rejected and
\* nothing is encoded.
C22_NetworkEncoding ==
    /\ (op = "network" /\ Done) =>
          IF IPv4Valid(args[1]) /\ args[2] \in 0..65535
             /\ IPv4Valid(args[3]) /\ IPv4Valid(args[4])
          THEN /\ pc = "returned"
               /\ fromhex(retVal) = NetworkBytes(args[1], args[2], args[4], args[3])
          ELSE pc = "raised" /\ err = "ValueError"
    /\ (rev = "p1255" /\ op = "set_ip_configuration" /\ Done /\ sock # 0
            /\ io \in {"none", "ok"}) =>
          IF IpArgsWellFormed
          THEN /\ pc = "returned"
               /\ SubSeq(wrote, Len(wrote) - 15, Len(wrote))
                      = NetworkBytes(args[1], args[2], args[3], args[4])
          ELSE pc = "raised" /\ wrote = <<>>

\* the modify commands and their bytes on the wire: ":M", the length field of
\* 4 bytes big-endian, the payload
ModifyOps == {"set_trigger_configuration", "set_channel_configuration",
              "set_ip_configuration"}
Marker == SubSeq(wrote, 1, 2)
LengthField ==
    16777216 * wrote[3] + 65536 * wrote[4] + 256 * wrote[5] + wrote[6]
Payload == SubSeq(wrote, 7, Len(wrote))

\* C23: in every modify command a setter emits, the 4-byte big-endian length
\* field behind the marker ":M" is the number of bytes of the payload that
\* follows the length field.
C23_LengthFieldCountsPayload ==
    (rev = "p1255" /\ op \in ModifyOps /\ pc = "returned" /\ io = "ok") =>
        /\ Marker = encode_ascii(<<":", "M">>)
        /\ LengthField = Len(Payload)

\* the frame reads that returned a reply, the width of their length prefix,
\* the value the prefix declares and the constant added to it
FrameReturned ==
    /\ op \in {"capture", "receive_data"}
    /\ pc = "returned" /\ retKind # "None"
PrefixWidth == IF op = "receive_data" THEN 4 ELSE 2
PrefixValue ==
    IF op = "receive_data" THEN unpack_le_u32(SubSeq(stream, 1, 4))
    ELSE unpack_le_u16(SubSeq(stream, 1, 2))
PrefixOffset == IF op = "receive_data" THEN 8 ELSE 12

\* C24: a frame read takes from the stream, prefix included, exactly the
\* little-endian value of the length prefix plus the offset of its variant:
\* 12 for the 2-byte prefix, 8 for the 4-byte prefix.
C24_FrameTotalLength ==
    FrameReturned => rxPos = PrefixValue + PrefixOffset

\* C25: the reply a frame read returns begins with the bytes of the length
\* prefix as received, followed by the other bytes in the order of the stream.
C25_PrefixKeptInReply ==
    FrameReturned =>
        /\ Len(retVal) >= PrefixWidth
        /\ SubSeq(retVal, 1, PrefixWidth) = SubSeq(stream, 1, PrefixWidth)
        /\ retVal = SubSeq(stream, 1, rxPos)

\* two exact quantities are the same number
RatEq(a, b) == a[3] = b[3] /\ a[1] * b[2] = b[1] * a[2]

\* sample j of decoded channel i, its voltscale s as mantissa and power of
\* ten (millivolts), its offset o
Raw(i, j) == dec[i].raw[j]
ScaleMant(i) == Canon(dec[i].voltscale)[1]
ScaleExp(i) == Canon(dec[i].voltscale)[2]

\* the samples of a normal capture: r * s / 25 volts, (r + o) / 25 divisions
NormalFormulas(i) ==
    \A j \in 1..Len(dec[i].raw) :
        /\ RatEq(dec[i].volt[j], Rat(Raw(i, j) * ScaleMant(i), 25, ScaleExp(i)))
        /\ j <= Len(dec[i].screen) =>
              RatEq(dec[i].screen[j], Rat(Raw(i, j) + dec[i].offset, 25, 0))

\* the samples of a deep-memory capture: s * (r / 256 - o) / 25 volts,
\* (r / 256) / 25 divisions
DeepFormulas(i) ==
    \A j \in 1..Len(dec[i].raw) :
        /\ RatEq(dec[i].volt[j],
                 Rat(ScaleMant(i) * (Raw(i, j) - 256 * dec[i].offset), 6400, ScaleExp(i)))
        /\ Len(dec[i].screen) = Len(dec[i].raw)
        /\ RatEq(dec[i].screen[j], Rat(Raw(i, j), 6400, 0))

\* C26: in a normal (short-memory) capture every raw sample r of a channel
\* with offset o and voltscale s decodes to r * s / 25 volts and to
\* (r + o) / 25 divisions of the screen; r = 128 at 1 V is 5.12 V.
C26_NormalScaling ==
    (op \in DecodeOps /\ pc = "returned" /\ (op = "Waveform" => args[2] = "None")) =>
        \A i \in 1..Len(dec) : NormalFormulas(i)

\* C27: the capture mode alone selects the formulas: a channel decoded with a
\* memory depth has s * (r / 256 - o) / 25 volts and (r / 256) / 25 divisions
\* for every sample, a channel decoded without one has the normal formulas for
\* every sample.
C27_ModeSelectsFormulas ==
    (op = "Waveform" /\ pc = "returned") =>
        \A i \in 1..Len(dec) :
            /\ Len(dec[i].volt) = Len(dec[i].raw)
            /\ Len(dec[i].screen) = Len(dec[i].raw)
            /\ IF args[2] # "None" THEN DeepFormulas(i) ELSE NormalFormulas(i)

C27_Witness ==
    /\ op = "Waveform" /\ pc = "returned" /\ args[2] = "10K"
    /\ Len(dec) = 2 /\ Len(dec[2].raw) >= 1
    /\ dec[2].offset # 0

\* C28: a screenshot reply of at least 8 bytes decodes to the reply without
\* its first 8 bytes, unchanged and in order; a reply of fewer than 8 bytes
\* yields no image.
C28_ScreenshotStripsPrefix ==
    (op \in {"BMP", "interpret_bmp"} /\ Done) =>
        IF Len(Reply) >= 8
        THEN /\ pc = "returned"
             /\ SubSeq(Reply, 1, 8) \o retVal = Reply
        ELSE pc = "raised"

\* the address and port of a connecting call are a valid IPv4 address (for
\* capture.py: an IPv4Address object) and a port in 1..65535
ConnectArgsOk ==
    /\ IF rev = "capture_py" THEN args[1] = TRUE ELSE IPv4Valid(args[1])
    /\ args[2] \in 1..65535

\* C29: connect rejects an address that is no valid IPv4 address and a port
\* outside 1..65535 before it creates a socket; with a valid address and port
\* it goes on to create the socket and open the connection.
C29_ConnectValidatesFirst ==
    [][(pc = "idle" /\ pc' # "idle"
          /\ (op' = "connect" \/ (rev = "capture_py" /\ op' = "capture")))
          => IF ConnectArgsOk'
             THEN sockState' # sockState
             ELSE pc' = "raised" /\ sockState' = sockState /\ sock' = sock]_vars

\* the decodings that derive a time axis, the axis, the time of the screen
HasTimeAxis ==
    /\ pc = "returned"
    /\ \/ op = "Waveform"
       \/ op = "Dataset_save" /\ args[2] \in {"csv", "npz"}
TimeAxis == time
TotalTime == dec[1].timescale
AxisPoints == Len(TimeAxis)

\* one point per sample of the first channel, and every channel has as many
\* samples as the axis has points
OnePointPerSample ==
    /\ AxisPoints = Len(dec[1].raw)
    /\ \A i \in 1..Len(dec) : Len(dec[i].raw) = AxisPoints

\* the statement of C30 as written: the axis runs from -total_time / 2 to
\* +total_time / 2 whatever the number of samples
C30_TimeAxisEndToEnd ==
    HasTimeAxis =>
        /\ OnePointPerSample
        /\ AxisPoints >= 1 =>
              /\ RatEq(TimeAxis[1], Rat(-TotalTime[1], 2, TotalTime[2]))
              /\ RatEq(TimeAxis[AxisPoints], Rat(TotalTime[1], 2, TotalTime[2]))

\* C30: the time axis has one point per sample of the first channel and is
\* the one axis of every channel; with two samples or more it runs linearly
\* from -total_time / 2 to +total_time / 2, total_time being the timescale of
\* the first channel; with one sample it is the single point -total_time / 2.
C30_TimeAxis ==
    HasTimeAxis =>
        /\ OnePointPerSample
        /\ AxisPoints >= 1 => RatEq(TimeAxis[1], Rat(-TotalTime[1], 2, TotalTime[2]))
        /\ AxisPoints >= 2 =>
              /\ RatEq(TimeAxis[AxisPoints], Rat(TotalTime[1], 2, TotalTime[2]))
              /\ \A j \in 1..AxisPoints :
                    RatEq(TimeAxis[j],
                          Rat((2 * (j - 1) - (AxisPoints - 1)) * TotalTime[1],
                              2 * (AxisPoints - 1), TotalTime[2]))

C30_Witness ==
    /\ op = "Waveform" /\ pc = "returned"
    /\ Len(dec) = 2 /\ AxisPoints = 2
    /\ TimeAxis[2] = Rat(TotalTime[1], 2, TotalTime[2])


\* C31: after any sequence of connect and disconnect calls on one client,
\* every socket the client has created is the one it holds or has been
\* closed: the client never has more than one open socket.
\* every socket that is open at the OS is the one the client holds
NoLeakedSocket ==
    \A i \in SockIds : sockState[i] \in {"created", "connected"} => i = sock

C31_NoLeakedSocket ==
    [][(/\ rev \in ClientRevs
        /\ pc = "idle" /\ op' \in {"connect", "disconnect"}
        /\ NoLeakedSocket) => NoLeakedSocket']_vars


\* the loops that read the body of a frame, the calls that read a frame, and
\* the bytes of the stream that make up the frame being read
FrameBodyLoops == {"capture_loop", "capture_py_loop", "receive_data_loop"}
FrameOps == {"capture", "receive_data", "get_waveform"}
FrameEnd ==
    IF op = "capture" THEN unpack_le_u16(stream) + 12 ELSE unpack_le_u32(stream) + 4

\* C32: while a frame is read the count of bytes received stays within the
\* computed total, 0 <= read <= total at every turn of the loop, and the read
\* never takes a byte of the stream that lies behind the frame, however the
\* stream is cut into pieces.
C32_ReadWithinTotal ==
    /\ pc \in FrameBodyLoops => (0 <= read /\ read <= length /\ Len(buffer) = length)
    /\ pc = "receive_data_prefix" => (0 <= read /\ read <= 4)
    /\ pc = "receive_data_loop" => rxPos = 4 + read
    /\ pc \in {"capture_loop", "capture_py_loop"} => rxPos = read
    /\ (op \in FrameOps /\ (pc \in FrameBodyLoops \/ Done)
          /\ rxPos >= (IF op = "capture" THEN 2 ELSE 4)) => rxPos <= FrameEnd

C32_Witness ==
    /\ op \in FrameOps /\ pc = "returned"
    /\ rxPos >= 4 /\ rxPos < Len(stream)
    /\ rxPos = FrameEnd /\ read = length /\ read > 0


\* s is a proper prefix of t
ProperPrefix(s, t) == Len(s) < Len(t) /\ SubSeq(t, 1, Len(s)) = s
PrefixFree(tokens) == \A s \in tokens, t \in tokens : ~ProperPrefix(s, t)
BothPrefixFree == PrefixFree(SCPI_RESPONSES) /\ PrefixFree(SCPI_RESPONSES_cm)

\* C33: the SCPI response tokens are prefix-free, in both copies of the list:
\* no token is a proper prefix of another, so when the reader returns on an
\* exact match no longer token begins with the characters read so far.
C33_TokensPrefixFree ==
    /\ BothPrefixFree
    /\ (op = "receive_scpi_response" /\ pc = "returned") =>
          /\ retVal = Consumed(rxPos)
          /\ \A t \in SCPI_RESPONSES \cup SCPI_RESPONSES_cm : ~ProperPrefix(retVal, t)

C33_Witness ==
    /\ op = "receive_scpi_response" /\ pc = "returned"
    /\ retVal = <<"1", "0", "K">> /\ rxPos < Len(stream)


\* C34: when decoding succeeds with n channels, the n channel regions are
\* equal-sized slices taken in order, one behind the other, that together are
\* exactly the bytes behind the header; every channel has the same number of
\* samples, and that number is the length of the time axis.
C34_ChannelsTilePayload ==
    (op \in DecodeOps /\ pc = "returned" /\ Len(dec) >= 1) =>
        /\ Len(dec) = ChannelCount
        /\ \A i \in 1..Len(dec) :
              /\ dec[i].used * ChannelCount = PayloadLen
              /\ dec[i].used >= 3 =>
                    dec[i].name = <<ChannelByte(i, 1), ChannelByte(i, 2), ChannelByte(i, 3)>>
              /\ \A j \in 1..Len(dec[i].raw) :
                    dec[i].raw[j] = unpack_le_i16(<<ChannelByte(i, 59 + 2 * j - 1),
                                                    ChannelByte(i, 59 + 2 * j)>>)
              /\ Len(dec[i].raw) = Len(dec[1].raw)
        /\ op = "Waveform" => Len(time) = Len(dec[1].raw)


\* slice i of the equal-sized channel slices of the reply
ChannelSlice(i) ==
    SubSeq(Reply, HeaderLen + (i - 1) * (PayloadLen \div ChannelCount) + 1,
                  HeaderLen + i * (PayloadLen \div ChannelCount))

\* C35: the two revisions of the channel header parser read the same layout:
\* for every channel slice Waveform.Channel of data.py and interpret_channel
\* of p1255_2.py take name, timescale index, offset, voltscale index and the
\* samples from the same places (the samples from byte 59 on), so both decode
\* the slice, or neither does, and both yield the same raw samples.
C35_SameChannelLayout ==
    (/\ op \in {"Waveform", "interpret_waveform"} /\ Done
     /\ Len(Reply) >= WAVEFORM_HEADER /\ ChannelCount >= 1
     /\ PayloadLen % ChannelCount = 0) =>
        \A i \in 1..ChannelCount :
            LET old == Waveform_Channel(ChannelSlice(i), "None")
                new == interpret_channel(ChannelSlice(i))
            IN  /\ (old.err = "none") <=> (new.err = "none")
                /\ (old.err = "none" /\ new.err = "none") =>
                      /\ old.raw = new.raw
                      /\ old.name = new.name
                      /\ old.offset = new.offset
                      /\ old.voltscale = new.voltscale
                      /\ old.timescale = calc_timescale_data(new.timescale[1])
                /\ (pc = "returned" /\ op = "Waveform") => dec[i].raw = old.raw
                /\ (pc = "returned" /\ op = "interpret_waveform") => dec[i].raw = new.raw


\* the formula of p1255.py and the table of commands.py agree on 0..11
FormulaMatchesTable ==
    \A i \in 0..11 : SciValue(calc_voltscale(i)) = VOLTBASELIST[i + 1]

\* C36: for every voltscale index 0..11 the mantissa and exponent formula of
\* the older revision gives the volts per division of the table the newer
\* revision looks up: the same index decodes to the same voltscale in both.
C36_VoltscaleFormulaIsTable ==
    /\ FormulaMatchesTable
    /\ (op \in DecodeOps /\ pc = "returned") =>
          \A i \in 1..Len(dec) :
              ChannelByte(i, 36) \in 0..11 =>
                  /\ SciValue(dec[i].voltscale) = VOLTBASELIST[ChannelByte(i, 36) + 1]
                  /\ op = "Dataset" => dec[i].voltscale = calc_voltscale(ChannelByte(i, 36))
                  /\ op # "Dataset" =>
                        dec[i].voltscale = Sci(VOLTBASELIST[ChannelByte(i, 36) + 1], 0)

C36_Witness ==
    /\ op = "Dataset" /\ pc = "returned" /\ Len(dec) = 2
    /\ ChannelByte(2, 36) = 11 /\ dec[2].voltscale = Sci(1, 4)

\* a capture_single whose capture failed has shown its message box and has
\* not yet reached toggle_run(False) and disconnect()
FailedCaptureHandled == \E i \in 1..Len(dialogs) : dialogs[i] = "capture_single"

\* the step on which the handler of a failed capture goes on after its box
FailedCaptureResumes ==
    /\ dialogs # <<>>
    /\ dialogs[Len(dialogs)] = "capture_single"
    /\ dialogs' = SubSeq(dialogs, 1, Len(dialogs) - 1)

\* the failed capture_single, once it goes on, leaves the timer stopped and
\* cleared, the run button unchecked and the client without a socket
C37_RunStoppedAfterFailure ==
    [][FailedCaptureResumes =>
          /\ timer' = "None"
          /\ ~run_checked'
          /\ sock' = 0
          /\ sock # 0 => sockState'[sock] = "closed"]_vars

\* C37: when capture_single fails, the timer is stopped and cleared, the run
\* button is unchecked and the client is disconnected, and while a failed
\* capture_single is being handled no second capture_single begins: no
\* further message box is opened and no further dataset is taken.
C37_FailedCaptureStopsRun ==
    [][/\ FailedCaptureResumes =>
             /\ timer' = "None"
             /\ ~run_checked'
             /\ sock' = 0
       /\ FailedCaptureHandled =>
             /\ Len(dialogs') <= Len(dialogs)
             /\ current_dataset' = current_dataset]_vars

\* the keys a field acts on: digits, the cursor and delete keys, and in the
\* address field the dot
FieldHandles(key, isIp) ==
    \/ key.kind = "str" /\ (isdecimal(key.val) \/ (isIp /\ key.val = "."))
    \/ key.kind = "int" /\ key.val \in {"KEY_LEFT", "KEY_RIGHT", "KEY_BACKSPACE",
                                        "127", "KEY_DC"}

FieldsWithinLength ==
    /\ 0 <= ip_cursor /\ ip_cursor <= Len(ip_text) /\ Len(ip_text) <= IpLength
    /\ 0 <= port_cursor /\ port_cursor <= Len(port_text) /\ Len(port_text) <= PortLength

\* C38: whatever keys the address field (length 15) and the port field
\* (length 5) are given, 0 <= cursor <= len(text) <= length holds of both,
\* and a key the active field does not handle leaves the texts and the
\* cursors as they were and is returned to the caller.
C38_FieldsStayInBounds ==
    /\ [](FieldsWithinLength)
    /\ [][(active \in {0, 1} /\ ~FieldHandles(key_in', active = 0)) =>
             /\ key_ret' = key_in'
             /\ UNCHANGED <<ip_text, ip_cursor, port_text, port_cursor>>]_vars

\* both fields have been typed into at their full length: a digit was put in
\* before the end of the full port field, whose last character was cut off,
\* and a key the port field does not handle was handed back
C38_Witness ==
    /\ Len(ip_text) = IpLength
    /\ port_text = <<"3", "0", "1", "0", "0">>
    /\ port_cursor = 3
    /\ active = 1
    /\ key_in = StrKey("a") /\ key_ret = StrKey("a")

\* the step on which connect_button.trigger() has called set_status
SetStatusCalled == button_connected' # button_connected

\* C39: after connection_status.set_status(s) the status line shows s:
\* Connected after set_status(True), Disconnected after set_status(False).
C39_StatusLineShowsStatus ==
    [][SetStatusCalled =>
          status_line' = IF status' = "True" THEN "Connected" ELSE "Disconnected"]_vars

========================================================================
